---- MODULE Spec2Model ----
(***************************************************************************)
(* PrompTab (LISA-ITMO/promptab), frontend: the variable store and the     *)
(* recent-prompt buffer of utils/storage (src/.../utils/errorHandler.ts),  *)
(* the popup's variable handlers and replacement dialog (popup/index.tsx)  *)
(* and the preview of components/PromptWithVariables.tsx.                  *)
(*                                                                         *)
(* Text is a sequence of one-character strings; JavaScript's 0-based       *)
(* half-open offsets [start,end) are kept as they are in the state and     *)
(* converted where a sequence is indexed.                                  *)
(***************************************************************************)
EXTENDS Integers, Sequences, FiniteSets, TLC

VARIABLES
    storage,        \* browser.storage.local: key -> <<>> (absent) or <<value>>
    nextId,         \* how many ids crypto.randomUUID() has handed out
    now,            \* Date.now()
    calls,          \* calls of the storage API made so far (bounds the runs)
    lastOp,         \* the last completed call of the variable API and its result
    onlyAdds,       \* no updateUserVariable/removeUserVariable has run so far
    lastValue,      \* name -> <<>> or <<value of the last addUserVariable>>
    userVariables,  \* popup: useState<UserVariable[]>
    error,          \* popup: useState<string | null>, "" for null
    rpPc,           \* caller -> "idle", or "adding" inside addRecentPrompt
    rpRead,         \* caller -> the list its addRecentPrompt call has read
    history,        \* entries written since the last clear, oldest first
    racy,           \* an addRecentPrompt wrote over a change made after its read
    overlaps,       \* calls started while another call was in flight (bounds the runs)
    optimizationResult,     \* popup: <<>> for null, or <<the optimized text>>
    variableReplaceDialog,  \* popup: the state of the Variable Replace Dialog
    inflight,       \* the handleReplaceVariable calls that are awaiting storage
    mutation,       \* optimizeMutation: "idle", or "pending" while isPending
    response,       \* the responses that the 100 ms timers of onSuccess will set
    recentPrompts,  \* popup: useState<RecentPrompt[]>
    parsedFrom,     \* <<>> or <<the text the dialog's offsets were parsed from>>
    event,          \* the popup handler that ran last
    budget,         \* user events the popup still takes (bounds the runs)
    promptValue,    \* PromptWithVariables: the prop value
    promptVariables,    \* PromptWithVariables: the prop variables
    showPreview,    \* PromptWithVariables: the prop showPreview
    parsedVariables,    \* PromptWithVariables: useState<ParsedVariable[]>
    previewText,    \* PromptWithVariables: useState('')
    adding,         \* caller -> <<>>, or <<its addUserVariable call past its read>>
    promptData,     \* popup: the optimization form, its field prompt
    variableDialog  \* popup: the state of the template's variable dialog

storeVars == <<nextId, now, calls, lastOp, onlyAdds, lastValue, userVariables, error>>
recentVars == <<rpPc, rpRead, history, racy, overlaps, recentPrompts>>
dialogVarsOfPopup == <<optimizationResult, variableReplaceDialog, inflight, mutation,
                       response, parsedFrom, budget>>
previewVars == <<promptValue, promptVariables, showPreview, parsedVariables,
                 previewText>>
templateVars == <<promptData, variableDialog>>
componentVars == <<previewVars, adding, templateVars>>
dialogVars == <<dialogVarsOfPopup, componentVars>>
popupVars == <<optimizationResult, variableReplaceDialog, inflight, mutation,
               response, parsedFrom, event, budget, componentVars>>

vars == <<storage, nextId, now, calls, lastOp, onlyAdds, lastValue,
          userVariables, error, rpPc, rpRead, history, racy, overlaps,
          optimizationResult, variableReplaceDialog, inflight, mutation,
          response, recentPrompts, parsedFrom, event, budget,
          promptValue, promptVariables, showPreview, parsedVariables, previewText,
          adding, promptData, variableDialog>>

----------------------------------------------------------------------------
(* Bounds *)

MaxCalls == 3
MaxNow == 1
MaxAdds == 22
MaxOverlaps == 2
MaxBudget == 6
MaxTextLen == 11
MaxTokens == 2
MaxFaultyCalls == 2
MaxResultLen == 6
MaxPromptLen == 7
MaxResultEvents == 2
MaxReplaceTokens == 3
MaxReplaceEvents == 3

----------------------------------------------------------------------------
(* Sequences and text *)

Min(S) == CHOOSE x \in S : \A y \in S : x <= y

Range(s) == {s[i] : i \in DOMAIN s}

\* Array.prototype.slice(from, to) / String.prototype.substring(from, to)
\* for 0 <= from, with 0-based half-open offsets
Slice(s, from, to) ==
    LET t == IF to > Len(s) THEN Len(s) ELSE to
    IN  IF from >= t THEN <<>> ELSE SubSeq(s, from + 1, t)

IsBlank(s) == \A i \in DOMAIN s : s[i] = " "

\* String.prototype.indexOf(pattern): the 0-based offset, -1 for none
IndexOf(str, pattern) ==
    LET I == {k \in 0 .. (Len(str) - Len(pattern)) :
                  Slice(str, k, k + Len(pattern)) = pattern}
    IN  IF I = {} THEN -1 ELSE Min(I)

----------------------------------------------------------------------------
(* safeBrowser.storage.local and the storage keys *)

Absent == <<>>

\* result[KEY] || []
StoredList(key) == IF storage[key] = Absent THEN <<>> ELSE storage[key][1]

StorageSet(key, value) == [storage EXCEPT ![key] = <<value>>]

StorageRemove(key) == [storage EXCEPT ![key] = Absent]

getUserVariables == StoredList("user_variables")

----------------------------------------------------------------------------
(* The variable API *)

NamePool == {<<"N">>, <<"M">>}
ValuePool == {<<"x">>, <<"y">>}
IdPool == 1 .. (MaxCalls + 1)

\* variables.findIndex(v => v.name === name), 0 for -1
FindIndexByName(variables, name) ==
    LET I == {i \in DOMAIN variables : variables[i].name = name}
    IN  IF I = {} THEN 0 ELSE Min(I)

\* variables.findIndex(v => v.id === id), 0 for -1
FindIndexById(variables, id) ==
    LET I == {i \in DOMAIN variables : variables[i].id = id}
    IN  IF I = {} THEN 0 ELSE Min(I)

\* { ...variable, id: crypto.randomUUID(), timestamp: Date.now() }
NewVariable(variable) ==
    [id |-> nextId + 1, name |-> variable.name, value |-> variable.value,
     description |-> variable.description, category |-> variable.category,
     timestamp |-> now]

AlwaysPush(variables, newVariable) == Append(variables, newVariable)

PrependNew(variables, newVariable) ==
    LET existingIndex == FindIndexByName(variables, newVariable.name)
    IN  IF existingIndex > 0
        THEN [variables EXCEPT ![existingIndex] = newVariable]
        ELSE <<newVariable>> \o variables

MergedWithStored(variables, newVariable) ==
    LET stored == getUserVariables
        existingIndex == FindIndexByName(stored, newVariable.name)
    IN  IF existingIndex > 0
        THEN [stored EXCEPT ![existingIndex] = newVariable]
        ELSE Append(stored, newVariable)

\* the collection addUserVariable writes
AddResult(variables, newVariable) ==
    LET existingIndex == FindIndexByName(variables, newVariable.name)
    IN  IF existingIndex > 0
        THEN [variables EXCEPT ![existingIndex] = newVariable]
        ELSE Append(variables, newVariable)

UpdateKeepsTimestamp(variables, variable) ==
    LET index == FindIndexById(variables, variable.id)
    IN  [variables EXCEPT ![index] = [variable EXCEPT !.timestamp = variables[index].timestamp]]

\* the collection updateUserVariable writes when the id is found
UpdateResult(variables, variable) ==
    LET index == FindIndexById(variables, variable.id)
    IN  [variables EXCEPT ![index] = [variable EXCEPT !.timestamp = now]]

SpliceAtIndex(variables, id) ==
    LET index == FindIndexById(variables, id)
        at == IF index = 0 THEN Len(variables) ELSE index
    IN  SubSeq(variables, 1, at - 1) \o SubSeq(variables, at + 1, Len(variables))

\* variables.filter(v => v.id !== id)
RECURSIVE FilterOutId(_, _)
FilterOutId(variables, id) ==
    IF variables = <<>> THEN <<>>
    ELSE IF Head(variables).id = id THEN FilterOutId(Tail(variables), id)
    ELSE <<Head(variables)>> \o FilterOutId(Tail(variables), id)

\* browser?.storage?.local is there or is not, and a call of it resolves or rejects
NoFault == [backend |-> "available", read |-> "ok", write |-> "ok"]

FaultPool ==
    {NoFault,
     [backend |-> "available", read |-> "error", write |-> "ok"],
     [backend |-> "available", read |-> "ok", write |-> "error"],
     [backend |-> "available", read |-> "error", write |-> "error"],
     [backend |-> "unavailable", read |-> "ok", write |-> "ok"]}

\* safeBrowser.storage.local.get(key) followed by `|| []`: {} is returned when
\* the backend is missing and when its get rejects
SafeGet(store, fault, key) ==
    IF fault.backend = "unavailable" \/ fault.read = "error" THEN <<>>
    ELSE IF store[key] = Absent THEN <<>> ELSE store[key][1]

\* safeBrowser.storage.local.set({[key]: value}): the storage after the call;
\* nothing is written when the backend is missing and when its set rejects
SafeSet(fault, key, value) ==
    IF fault.backend = "unavailable" \/ fault.write = "error" THEN storage
    ELSE StorageSet(key, value)

SetSwallows(fault) == FALSE

SetThrowsWithoutBackend(fault) == fault.backend = "unavailable"

\* set rethrows the rejection of the backend, and returns when there is no backend
SetThrows(fault) == fault.backend = "available" /\ fault.write = "error"

NoOp ==
    [op |-> "none", name |-> <<>>, id |-> 0, ret |-> 0, fault |-> NoFault,
     wrote |-> FALSE, threw |-> FALSE, arg |-> <<>>, returned |-> <<>>]

\* addUserVariable(variable) under the fault: the state after the awaited call
AddOutcome(variable, fault) ==
    LET variables == SafeGet(storage, fault, "user_variables")
        newVariable == NewVariable(variable)
    IN  /\ storage' = SafeSet(fault, "user_variables", AddResult(variables, newVariable))
        /\ nextId' = nextId + 1
        /\ calls' = calls + 1
        /\ lastOp' = [op |-> "add", name |-> variable.name, id |-> 0,
                      ret |-> newVariable.id, fault |-> fault, wrote |-> TRUE,
                      threw |-> SetThrows(fault), arg |-> <<>>,
                      returned |-> IF SetThrows(fault) THEN <<>> ELSE <<newVariable>>]
        /\ lastValue' = IF SetThrows(fault) THEN lastValue
                        ELSE [lastValue EXCEPT ![variable.name] = <<variable.value>>]
        /\ UNCHANGED <<now, onlyAdds>>

\* addUserVariable(variable): the state after the awaited call
AddEffect(variable) == AddOutcome(variable, NoFault)

\* updateUserVariable(variable) under the fault: the state after the awaited call
UpdateOutcome(variable, fault) ==
    LET variables == SafeGet(storage, fault, "user_variables")
        index == FindIndexById(variables, variable.id)
    IN  /\ IF index > 0
           THEN storage' = SafeSet(fault, "user_variables",
                                   UpdateResult(variables, variable))
           ELSE UNCHANGED storage
        /\ calls' = calls + 1
        /\ lastOp' = [op |-> "update", name |-> variable.name, id |-> variable.id,
                      ret |-> variable.id, fault |-> fault, wrote |-> index > 0,
                      threw |-> (index > 0 /\ SetThrows(fault)), arg |-> <<variable>>,
                      returned |-> IF index > 0 /\ SetThrows(fault) THEN <<>>
                                   ELSE IF index > 0
                                   THEN <<[variable EXCEPT !.timestamp = now]>>
                                   ELSE <<variable>>]
        /\ onlyAdds' = FALSE
        /\ UNCHANGED <<nextId, now, lastValue>>

\* updateUserVariable(variable): the state after the awaited call
UpdateEffect(variable) == UpdateOutcome(variable, NoFault)

\* removeUserVariable(id) under the fault: the state after the awaited call
RemoveOutcome(id, fault) ==
    LET variables == SafeGet(storage, fault, "user_variables")
    IN  /\ storage' = SafeSet(fault, "user_variables", FilterOutId(variables, id))
        /\ calls' = calls + 1
        /\ lastOp' = [op |-> "remove", name |-> <<>>, id |-> id, ret |-> 0,
                      fault |-> fault, wrote |-> TRUE, threw |-> SetThrows(fault),
                      arg |-> <<>>, returned |-> <<>>]
        /\ onlyAdds' = FALSE
        /\ UNCHANGED <<nextId, now, lastValue>>

\* removeUserVariable(id): the state after the awaited call
RemoveEffect(id) == RemoveOutcome(id, NoFault)

\* a direct caller of the exported functions, under the fault
addUserVariableWith(fault, name, value) ==
    /\ calls < MaxCalls
    /\ AddOutcome([name |-> name, value |-> value, description |-> "", category |-> ""],
                  fault)
    /\ event' = "addUserVariable"
    /\ UNCHANGED <<userVariables, error, recentVars, dialogVars>>

updateUserVariableWith(fault, id, name, value) ==
    /\ calls < MaxCalls
    /\ UpdateOutcome([id |-> id, name |-> name, value |-> value, description |-> "",
                      category |-> "", timestamp |-> now], fault)
    /\ event' = "updateUserVariable"
    /\ UNCHANGED <<userVariables, error, recentVars, dialogVars>>

removeUserVariableWith(fault, id) ==
    /\ calls < MaxCalls
    /\ RemoveOutcome(id, fault)
    /\ event' = "removeUserVariable"
    /\ UNCHANGED <<userVariables, error, recentVars, dialogVars>>

\* a direct caller of the exported functions
addUserVariable(name, value) ==
    /\ calls < MaxCalls
    /\ AddEffect([name |-> name, value |-> value, description |-> "", category |-> ""])
    /\ UNCHANGED <<userVariables, error, recentVars, popupVars>>

updateUserVariable(id, name, value) ==
    /\ calls < MaxCalls
    /\ UpdateEffect([id |-> id, name |-> name, value |-> value, description |-> "",
                     category |-> "", timestamp |-> now])
    /\ UNCHANGED <<userVariables, error, recentVars, popupVars>>

removeUserVariable(id) ==
    /\ calls < MaxCalls
    /\ RemoveEffect(id)
    /\ UNCHANGED <<userVariables, error, recentVars, popupVars>>

----------------------------------------------------------------------------
(* The popup's variable handlers *)

DialogNamePool == NamePool \cup {<<" ">>}

\* handleSaveVariable with the dialog holding (editingId, name, value), under
\* the fault of its store call and the outcome of the read that refreshes the
\* list; editingId = 0 when the dialog was opened by handleCreateVariable
handleSaveVariableWith(fault, refresh, editingId, name, value) ==
    /\ calls < MaxCalls
    /\ ~variableReplaceDialog.open
    /\ event' = "handleSaveVariable"
    /\ IF IsBlank(name)
       THEN /\ error' = "Variable name is required"
            /\ UNCHANGED <<storage, nextId, now, calls, lastOp, onlyAdds, lastValue,
                           userVariables>>
       ELSE IF IsBlank(value)
       THEN /\ error' = "Variable value is required"
            /\ UNCHANGED <<storage, nextId, now, calls, lastOp, onlyAdds, lastValue,
                           userVariables>>
       ELSE /\ IF editingId # 0
               THEN UpdateOutcome([id |-> editingId, name |-> name, value |-> value,
                                   description |-> "", category |-> "",
                                   timestamp |-> now], fault)
               ELSE AddOutcome([name |-> name, value |-> value, description |-> "",
                                category |-> ""], fault)
            /\ IF lastOp'.threw
               THEN /\ error' = "Failed to save variable"
                    /\ UNCHANGED userVariables
               ELSE /\ userVariables' =
                           SafeGet(storage', [fault EXCEPT !.read = refresh],
                                   "user_variables")
                    /\ UNCHANGED error
    /\ UNCHANGED <<recentVars, dialogVars>>

\* handleSaveVariable with a working backend
handleSaveVariable(editingId, name, value) ==
    handleSaveVariableWith(NoFault, "ok", editingId, name, value)

\* handleDeleteVariable(id), from the list the popup shows, under the fault of
\* its store call and the outcome of the read that refreshes the list
handleDeleteVariableWith(fault, refresh, id) ==
    /\ calls < MaxCalls
    /\ ~variableReplaceDialog.open
    /\ RemoveOutcome(id, fault)
    /\ IF lastOp'.threw
       THEN /\ error' = "Failed to delete variable"
            /\ UNCHANGED userVariables
       ELSE /\ userVariables' =
                   SafeGet(storage', [fault EXCEPT !.read = refresh], "user_variables")
            /\ UNCHANGED error
    /\ event' = "handleDeleteVariable"
    /\ UNCHANGED <<recentVars, dialogVars>>

\* handleDeleteVariable with a working backend
handleDeleteVariable(id) == handleDeleteVariableWith(NoFault, "ok", id)

\* the effect that clears the error message after 5 seconds
errorTimeout ==
    /\ error # ""
    /\ error' = ""
    /\ event' = "errorTimeout"
    /\ UNCHANGED <<storage, nextId, now, calls, lastOp, onlyAdds, lastValue,
                   userVariables, recentVars, dialogVars>>

\* time passes
Tick ==
    /\ now < MaxNow
    /\ now' = now + 1
    /\ event' = "Tick"
    /\ UNCHANGED <<storage, nextId, calls, lastOp, onlyAdds, lastValue,
                   userVariables, error, recentVars, dialogVars>>

----------------------------------------------------------------------------
(* The recent-prompt buffer *)

RECENT_LIMIT == 20

Callers == {"c1", "c2"}

\* what the optimization API answered: original and optimized text
PromptPool == {[original |-> <<"p">>, optimized |-> <<"q">>]}

getRecentPrompts == StoredList("recent_prompts")

KeepOneMore(recent, newPrompt) == Slice(<<newPrompt>> \o recent, 0, RECENT_LIMIT + 1)

AppendThenCut(recent, newPrompt) == Slice(recent \o <<newPrompt>>, 0, RECENT_LIMIT)

\* [newPrompt, ...recent].slice(0, 20)
Updated(recent, newPrompt) == Slice(<<newPrompt>> \o recent, 0, RECENT_LIMIT)

\* another caller is inside addRecentPrompt
InFlight(c) == \E d \in Callers \ {c} : rpPc[d] = "adding"

\* a call of c may start: calls that overlap another call are bounded
MayStart(c) ==
    /\ rpPc[c] = "idle"
    /\ InFlight(c) => overlaps < MaxOverlaps

Started(c) == IF InFlight(c) THEN overlaps + 1 ELSE overlaps

\* addRecentPrompt up to the end of its await of getRecentPrompts()
addRecentPromptRead(c) ==
    /\ MayStart(c)
    /\ nextId + Cardinality({d \in Callers : rpPc[d] = "adding"}) < MaxAdds
    /\ rpPc' = [rpPc EXCEPT ![c] = "adding"]
    /\ rpRead' = [rpRead EXCEPT ![c] = getRecentPrompts]
    /\ overlaps' = Started(c)
    /\ UNCHANGED <<storage, storeVars, history, racy, recentPrompts, popupVars>>

\* addRecentPrompt from there to the end of its await of storage.local.set
addRecentPromptWrite(c, prompt) ==
    /\ rpPc[c] = "adding"
    /\ LET newPrompt == [id |-> nextId + 1, original |-> prompt.original,
                         optimized |-> prompt.optimized, timestamp |-> now]
       IN  /\ storage' = StorageSet("recent_prompts", Updated(rpRead[c], newPrompt))
           /\ history' = Append(history, newPrompt)
    /\ nextId' = nextId + 1
    /\ racy' = (racy \/ rpRead[c] # getRecentPrompts)
    /\ rpPc' = [rpPc EXCEPT ![c] = "idle"]
    /\ rpRead' = [rpRead EXCEPT ![c] = <<>>]
    /\ UNCHANGED <<now, calls, lastOp, onlyAdds, lastValue, userVariables, error,
                   overlaps, recentPrompts, popupVars>>

\* clearRecentPrompts: storage.local.remove(RECENT_PROMPTS)
clearRecentPrompts(c) ==
    /\ MayStart(c)
    /\ storage' = StorageRemove("recent_prompts")
    /\ overlaps' = Started(c)
    /\ history' = <<>>
    /\ racy' = FALSE
    /\ UNCHANGED <<storeVars, rpPc, rpRead, recentPrompts, popupVars>>

----------------------------------------------------------------------------
(* addUserVariable under two callers *)

\* addUserVariable(variable) up to the end of its await of getUserVariables()
addUserVariableRead(c, name, value) ==
    /\ adding[c] = <<>>
    /\ calls + Cardinality({d \in Callers : adding[d] # <<>>}) < MaxCalls
    /\ adding' = [adding EXCEPT ![c] =
                      <<[variable |-> [name |-> name, value |-> value,
                                       description |-> "", category |-> ""],
                         variables |-> getUserVariables]>>]
    /\ UNCHANGED <<storage, storeVars, recentVars, dialogVarsOfPopup, event, previewVars,
                   templateVars>>

\* addUserVariable from there to the end of its await of storage.local.set
addUserVariableWrite(c) ==
    /\ adding[c] # <<>>
    /\ LET call == adding[c][1]
           newVariable == NewVariable(call.variable)
       IN  /\ storage' = StorageSet("user_variables",
                                    AddResult(call.variables, newVariable))
           /\ lastOp' = [op |-> "add", name |-> call.variable.name, id |-> 0,
                         ret |-> newVariable.id, fault |-> NoFault, wrote |-> TRUE,
                         threw |-> FALSE, arg |-> <<>>, returned |-> <<newVariable>>]
           /\ lastValue' = [lastValue EXCEPT ![call.variable.name] =
                                                 <<call.variable.value>>]
    /\ nextId' = nextId + 1
    /\ calls' = calls + 1
    /\ adding' = [adding EXCEPT ![c] = <<>>]
    /\ UNCHANGED <<now, onlyAdds, userVariables, error, recentVars, dialogVarsOfPopup,
                   event, previewVars, templateVars>>

----------------------------------------------------------------------------
(* The popup: optimized text, placeholders in brackets, the replace dialog *)

\* /\[([^\]]+)\]/ applied at offset i: the end offset of the match, 0 for none
RECURSIVE RunEnd(_, _)
RunEnd(text, j) ==
    \* the first offset >= j that holds "]" or is past the end of the text
    IF j >= Len(text) THEN j
    ELSE IF text[j + 1] = "]" THEN j
    ELSE RunEnd(text, j + 1)

MatchEndOrEmpty(text, i) ==
    IF i + 1 >= Len(text) \/ text[i + 1] # "[" THEN 0
    ELSE LET j == RunEnd(text, i + 1)
         IN  IF j < Len(text) THEN j + 1 ELSE 0

MatchEnd(text, i) ==
    IF i + 1 >= Len(text) \/ text[i + 1] # "[" THEN 0
    ELSE LET j == RunEnd(text, i + 1)
         IN  IF j > i + 1 /\ j < Len(text) THEN j + 1 ELSE 0

RECURSIVE ParseApart(_, _)
ParseApart(text, i) ==
    IF i >= Len(text) THEN <<>>
    ELSE LET e == MatchEnd(text, i)
         IN  IF e = 0 THEN ParseApart(text, i + 1)
             ELSE <<[name |-> Slice(text, i + 1, e - 1), start |-> i, end |-> e]>>
                      \o ParseApart(text, e + 1)

\* the loop of regex.exec with the g flag, from lastIndex = i
RECURSIVE ParseFrom(_, _)
ParseFrom(text, i) ==
    IF i >= Len(text) THEN <<>>
    ELSE LET e == MatchEnd(text, i)
         IN  IF e = 0 THEN ParseFrom(text, i + 1)
             ELSE <<[name |-> Slice(text, i + 1, e - 1), start |-> i, end |-> e]>>
                      \o ParseFrom(text, e)

parseVariablesFromText(text) == ParseFrom(text, 0)

ClosedDialog ==
    [open |-> FALSE, variableName |-> <<>>, currentValue |-> <<>>,
     position |-> [start |-> 0, end |-> 0], useExisting |-> FALSE,
     selectedVariable |-> <<>>]

\* what the optimization API answers with
TextPool == {<<"[", "N", "]", " ", "[", "N", "]">>, <<"a", "[", "M", "]">>}

RECURSIVE ReplaceAll(_, _, _)
ReplaceAll(text, pattern, value) ==
    LET k == IndexOf(text, pattern)
    IN  IF pattern = <<>> \/ k < 0 THEN text
        ELSE Slice(text, 0, k) \o value
                 \o ReplaceAll(Slice(text, k + Len(pattern), Len(text)), pattern, value)

ReplacedEverywhere(text, position, value) ==
    ReplaceAll(text, Slice(text, position.start, position.end), value)

KeepsClosing(text, position, value) ==
    Slice(text, 0, position.start) \o value \o Slice(text, position.end - 1, Len(text))

SpliceAfterStart(text, position, value) ==
    Slice(text, 0, position.start + 1) \o value \o Slice(text, position.end, Len(text))

\* beforeVariable + replacementValue + afterVariable
ReplacedText(text, position, value) ==
    Slice(text, 0, position.start) \o value \o Slice(text, position.end, Len(text))

\* handleOptimize: the error and the result are dropped, the mutation is started
handleOptimize ==
    /\ ~variableReplaceDialog.open
    /\ mutation # "pending"
    /\ budget > 0
    /\ budget' = budget - 1
    /\ error' = ""
    /\ optimizationResult' = <<>>
    /\ mutation' = "pending"
    /\ event' = "handleOptimize"
    /\ UNCHANGED <<componentVars, storage, nextId, now, calls, lastOp, onlyAdds, lastValue,
                   userVariables, recentVars, variableReplaceDialog, inflight,
                   response, parsedFrom>>

\* optimizeMutation.onSuccess: the prompt goes to the recent prompts, the list
\* of the popup is refreshed and the 100 ms timer is started
optimizeSuccess(text) ==
    /\ mutation = "pending"
    /\ LET newPrompt == [id |-> nextId + 1, original |-> <<"p">>, optimized |-> text,
                         timestamp |-> now]
       IN  storage' = StorageSet("recent_prompts", Updated(getRecentPrompts, newPrompt))
    /\ nextId' = nextId + 1
    /\ recentPrompts' = getRecentPrompts'
    /\ mutation' = "idle"
    /\ response' = Append(response, text)
    /\ event' = "optimizeSuccess"
    /\ UNCHANGED <<componentVars, now, calls, lastOp, onlyAdds, lastValue, userVariables, error,
                   rpPc, rpRead, history, racy, overlaps, optimizationResult,
                   variableReplaceDialog, inflight, parsedFrom, budget>>

\* a timer of onSuccess fires: setOptimizationResult(response)
resultTimer ==
    /\ response # <<>>
    /\ optimizationResult' = <<Head(response)>>
    /\ response' = Tail(response)
    /\ event' = "resultTimer"
    /\ UNCHANGED <<componentVars, storage, storeVars, recentVars, variableReplaceDialog, inflight,
                   mutation, parsedFrom, budget>>

\* the text InteractiveText shows
ShownText == IF optimizationResult = <<>> THEN <<>> ELSE optimizationResult[1]

PlaceholderFirst(text, variableName) == <<"[">> \o variableName \o <<"]", " ">> \o text

NoBlankBefore(text, variableName) == text \o <<"[">> \o variableName \o <<"]">>

\* optimizationResult.optimized + ` [${variableName}]`
updatedPrompt(text, variableName) == text \o <<" ", "[">> \o variableName \o <<"]">>

\* handleInsertVariable(variableName), from a button of the shown result
handleInsertVariable(variableName) ==
    /\ budget > 0
    /\ budget' = budget - 1
    /\ Len(ShownText) + Len(variableName) + 3 <= MaxTextLen
    /\ optimizationResult' =
           IF optimizationResult # <<>>
           THEN <<updatedPrompt(optimizationResult[1], variableName)>>
           ELSE optimizationResult
    /\ event' = "handleInsertVariable"
    /\ UNCHANGED <<componentVars, storage, storeVars, recentVars, variableReplaceDialog, inflight,
                   mutation, response, parsedFrom>>

\* userVariables.find(v => v.name === variableName)?.value || ''
ExistingValue(variableName) ==
    LET i == FindIndexByName(userVariables, variableName)
    IN  IF i = 0 THEN <<>> ELSE userVariables[i].value

\* handleVariableClick(name, start, end), from a span InteractiveText rendered
handleVariableClick(occurrence) ==
    /\ budget > 0
    /\ budget' = budget - 1
    /\ ~variableReplaceDialog.open
    /\ variableReplaceDialog' =
           [open |-> TRUE, variableName |-> occurrence.name,
            currentValue |-> ExistingValue(occurrence.name),
            position |-> [start |-> occurrence.start, end |-> occurrence.end],
            useExisting |-> FALSE, selectedVariable |-> <<>>]
    /\ parsedFrom' = optimizationResult
    /\ event' = "handleVariableClick"
    /\ UNCHANGED <<componentVars, storage, storeVars, recentVars, optimizationResult, inflight,
                   mutation, response>>

\* the dialog's text field: onChange of "New Value"
dialogType(value) ==
    /\ budget > 0
    /\ budget' = budget - 1
    /\ variableReplaceDialog.open
    /\ value # variableReplaceDialog.currentValue
    /\ variableReplaceDialog' = [variableReplaceDialog EXCEPT !.currentValue = value]
    /\ event' = "dialogType"
    /\ UNCHANGED <<componentVars, storage, storeVars, recentVars, optimizationResult, inflight,
                   mutation, response, parsedFrom>>

\* the dialog's checkbox "Use existing variable"
dialogUseExisting ==
    /\ budget > 0
    /\ budget' = budget - 1
    /\ variableReplaceDialog.open
    /\ variableReplaceDialog' =
           [variableReplaceDialog EXCEPT !.useExisting = ~variableReplaceDialog.useExisting]
    /\ event' = "dialogUseExisting"
    /\ UNCHANGED <<componentVars, storage, storeVars, recentVars, optimizationResult, inflight,
                   mutation, response, parsedFrom>>

\* the dialog's list of existing variables, shown while useExisting is checked
dialogSelect(variable) ==
    /\ budget > 0
    /\ budget' = budget - 1
    /\ variableReplaceDialog.open
    /\ variableReplaceDialog.useExisting
    /\ variableReplaceDialog' =
           [variableReplaceDialog EXCEPT !.selectedVariable = <<variable>>,
                                         !.currentValue = variable.value]
    /\ event' = "dialogSelect"
    /\ UNCHANGED <<componentVars, storage, storeVars, recentVars, optimizationResult, inflight,
                   mutation, response, parsedFrom>>

\* disabled={!currentValue.trim() || (useExisting && !selectedVariable)}
ConfirmEnabled ==
    /\ variableReplaceDialog.open
    /\ ~IsBlank(variableReplaceDialog.currentValue)
    /\ variableReplaceDialog.useExisting => variableReplaceDialog.selectedVariable # <<>>

TypedValue(dialog) == dialog.currentValue

\* replacementValue = selectedVariable.value
SelectedValue(dialog) == dialog.selectedVariable[1].value

OnlyHidden(dialog) == [dialog EXCEPT !.open = FALSE]

\* the dialog state that handleCancelVariableReplace sets
CancelledDialog(dialog) == ClosedDialog

\* handleReplaceVariable(useExisting, selectedVariable) up to its first await,
\* or to its end when the branch taken has none
handleReplaceVariable ==
    /\ ConfirmEnabled
    /\ budget > 0
    /\ budget' = budget - 1
    /\ IF optimizationResult = <<>>
       THEN /\ event' = "handleReplaceVariable"
            /\ UNCHANGED <<optimizationResult, variableReplaceDialog, inflight,
                           parsedFrom>>
       ELSE IF variableReplaceDialog.useExisting
                /\ variableReplaceDialog.selectedVariable # <<>>
       THEN /\ optimizationResult' =
                   <<ReplacedText(optimizationResult[1], variableReplaceDialog.position,
                                  SelectedValue(variableReplaceDialog))>>
            /\ variableReplaceDialog' = ClosedDialog
            /\ parsedFrom' = <<>>
            /\ event' = "replacedWithExisting"
            /\ UNCHANGED inflight
       ELSE /\ inflight' = Append(inflight,
                   [pc |-> "addUserVariable", text |-> optimizationResult[1],
                    variableName |-> variableReplaceDialog.variableName,
                    position |-> variableReplaceDialog.position,
                    currentValue |-> variableReplaceDialog.currentValue,
                    parsedFrom |-> parsedFrom,
                    replacementValue |-> <<>>, backend |-> "available"])
            /\ event' = "handleReplaceVariable"
            /\ UNCHANGED <<optimizationResult, variableReplaceDialog, parsedFrom>>
    /\ UNCHANGED <<componentVars, storage, storeVars, recentVars, mutation, response>>

RemoveAt(s, i) == SubSeq(s, 1, i - 1) \o SubSeq(s, i + 1, Len(s))

\* the i-th call in flight: await addUserVariable({name, value, ...}) under
\* the fault; when the call throws, the handler ends there with its promise
\* rejected, and nothing of the popup's state is set
replaceAddWith(fault, i) ==
    /\ i \in DOMAIN inflight
    /\ inflight[i].pc = "addUserVariable"
    /\ AddOutcome([name |-> inflight[i].variableName,
                   value |-> inflight[i].currentValue,
                   description |-> "Variable for", category |-> "general"], fault)
    /\ IF SetThrows(fault)
       THEN /\ inflight' = RemoveAt(inflight, i)
            /\ event' = "replaceRejected"
       ELSE /\ inflight' = [inflight EXCEPT ![i].pc = "getUserVariables",
                                            ![i].replacementValue = inflight[i].currentValue,
                                            ![i].backend = fault.backend]
            /\ event' = "replaceAdd"
    /\ UNCHANGED <<componentVars, userVariables, error, recentVars, optimizationResult,
                   variableReplaceDialog, mutation, response, parsedFrom, budget>>

\* the i-th call in flight: await addUserVariable with a working backend
replaceAdd(i) == replaceAddWith(NoFault, i)

\* the i-th call in flight: await getUserVariables(), whose read is served or
\* rejected, and the rest of the handler
replaceFinishWith(refresh, i) ==
    /\ i \in DOMAIN inflight
    /\ inflight[i].pc = "getUserVariables"
    /\ userVariables' =
           SafeGet(storage, [backend |-> inflight[i].backend, read |-> refresh,
                             write |-> "ok"], "user_variables")
    /\ optimizationResult' =
           <<ReplacedText(inflight[i].text, inflight[i].position,
                          inflight[i].replacementValue)>>
    /\ variableReplaceDialog' = ClosedDialog
    /\ parsedFrom' = <<>>
    /\ inflight' = RemoveAt(inflight, i)
    /\ event' = "replaceFinish"
    /\ UNCHANGED <<componentVars, storage, nextId, now, calls, lastOp, onlyAdds, lastValue, error,
                   recentVars, mutation, response, budget>>

\* the i-th call in flight: the rest of the handler with a working backend
replaceFinish(i) == replaceFinishWith("ok", i)

\* handleCancelVariableReplace: the Cancel button and the dialog's onClose
handleCancelVariableReplace ==
    /\ budget > 0
    /\ budget' = budget - 1
    /\ variableReplaceDialog.open
    /\ variableReplaceDialog' = CancelledDialog(variableReplaceDialog)
    /\ parsedFrom' = <<>>
    /\ event' = "handleCancelVariableReplace"
    /\ UNCHANGED <<componentVars, storage, storeVars, recentVars, optimizationResult, inflight,
                   mutation, response>>

----------------------------------------------------------------------------
(* PromptWithVariables: placeholders in double braces, and the preview *)

\* /\{\{([^}]+)\}\}/ applied at offset i: the end offset of the match, 0 for none
RECURSIVE BraceRunEnd(_, _)
BraceRunEnd(text, j) ==
    \* the first offset >= j that holds "}" or is past the end of the text
    IF j >= Len(text) THEN j
    ELSE IF text[j + 1] = "}" THEN j
    ELSE BraceRunEnd(text, j + 1)

BraceMatchEnd(text, i) ==
    IF i + 2 > Len(text) \/ text[i + 1] # "{" \/ text[i + 2] # "{" THEN 0
    ELSE LET j == BraceRunEnd(text, i + 2)
         IN  IF j > i + 2 /\ j + 2 <= Len(text) /\ text[j + 1] = "}" /\ text[j + 2] = "}"
             THEN j + 2 ELSE 0

\* String.prototype.trim, for the blank
RECURSIVE TrimStart(_)
TrimStart(str) ==
    IF str # <<>> /\ Head(str) = " " THEN TrimStart(Tail(str)) ELSE str

RECURSIVE TrimEnd(_)
TrimEnd(str) ==
    IF str # <<>> /\ str[Len(str)] = " " THEN TrimEnd(SubSeq(str, 1, Len(str) - 1))
    ELSE str

Untrimmed(str) == str

Trim(str) == TrimEnd(TrimStart(str))

LowerCase(str) ==
    [i \in DOMAIN str |-> IF str[i] = "A" THEN "a" ELSE IF str[i] = "B" THEN "b" ELSE str[i]]

FindAnyCase(vs, variableName) ==
    LET I == {i \in DOMAIN vs : LowerCase(vs[i].name) = LowerCase(variableName)}
    IN  IF I = {} THEN <<>> ELSE <<vs[Min(I)]>>

\* variables.find(v => v.name === variableName): <<>> for undefined
Find(vs, variableName) ==
    LET i == FindIndexByName(vs, variableName)
    IN  IF i = 0 THEN <<>> ELSE <<vs[i]>>

\* the while loop of the parse effect, from lastIndex = i
RECURSIVE Matches(_, _, _)
Matches(text, vs, i) ==
    IF i >= Len(text) THEN <<>>
    ELSE LET e == BraceMatchEnd(text, i)
         IN  IF e = 0 THEN Matches(text, vs, i + 1)
             ELSE LET variableName == Trim(Slice(text, i + 2, e - 2))
                  IN  IF variableName = <<>> THEN Matches(text, vs, e)
                      ELSE <<[name |-> variableName, startIndex |-> i, endIndex |-> e,
                              isValid |-> Find(vs, variableName) # <<>>,
                              variable |-> Find(vs, variableName)]>>
                               \o Matches(text, vs, e)

\* GetSubstitution for a string pattern: $$, $&, $` and $' in the replacement
RECURSIVE Substitution(_, _, _, _)
Substitution(replacement, matched, before, after) ==
    IF replacement = <<>> THEN <<>>
    ELSE IF Head(replacement) = "$" /\ Len(replacement) >= 2
    THEN LET c == replacement[2]
             rest == Substitution(SubSeq(replacement, 3, Len(replacement)),
                                  matched, before, after)
         IN  IF c = "$" THEN <<"$">> \o rest
             ELSE IF c = "&" THEN matched \o rest
             ELSE IF c = "`" THEN before \o rest
             ELSE IF c = "'" THEN after \o rest
             ELSE <<"$">> \o Substitution(Tail(replacement), matched, before, after)
    ELSE <<Head(replacement)>> \o Substitution(Tail(replacement), matched, before, after)

\* str.replace(pattern, replacement) for a string pattern: the first occurrence
StringReplace(str, pattern, replacement) ==
    LET k == IndexOf(str, pattern)
    IN  IF k < 0 THEN str
        ELSE Slice(str, 0, k)
                 \o Substitution(replacement, pattern, Slice(str, 0, k),
                                 Slice(str, k + Len(pattern), Len(str)))
                 \o Slice(str, k + Len(pattern), Len(str))

\* the while loop of the preview effect, from lastIndex = i
RECURSIVE Preview(_, _, _, _)
Preview(text, vs, i, preview) ==
    IF i >= Len(text) THEN preview
    ELSE LET e == BraceMatchEnd(text, i)
         IN  IF e = 0 THEN Preview(text, vs, i + 1, preview)
             ELSE LET variableName == Trim(Slice(text, i + 2, e - 2))
                      variable == Find(vs, variableName)
                  IN  IF variableName = <<>> THEN Preview(text, vs, e, preview)
                      ELSE IF variable # <<>> /\ variable[1].default_value # <<>>
                      THEN Preview(text, vs, e,
                               StringReplace(preview,
                                   <<"{", "{">> \o variableName \o <<"}", "}">>,
                                   variable[1].default_value))
                      ELSE Preview(text, vs, e, preview)

\* the two effects, run for the props (text, vs, show)
Effects(text, vs, show) ==
    /\ parsedVariables' = Matches(text, vs, 0)
    /\ previewText' = IF ~show \/ text = <<>> THEN previewText
                      ELSE Preview(text, vs, 0, text)

\* parsedVariables.filter(v => !v.isValid)
invalidVariables == SelectSeq(parsedVariables, LAMBDA v : ~v.isValid)

\* parsedVariables.filter(v => v.isValid).map(v => v.variable!)
usedVariables ==
    LET valid == SelectSeq(parsedVariables, LAMBDA v : v.isValid)
    IN  [k \in DOMAIN valid |-> valid[k].variable[1]]

\* the pieces the prompts are made of
TokenPool ==
    {<<"{", "{", "a", "}", "}">>, <<"{", "{", " ", "a", " ", "}", "}">>,
     <<"{", "{", "b", "}", "}">>, <<"-">>}

RECURSIVE Texts(_)
Texts(n) ==
    IF n = 0 THEN {<<>>}
    ELSE Texts(n - 1) \cup {t \o k : t \in Texts(n - 1), k \in TokenPool}

BackendVariable(id, name, default) == [id |-> id, name |-> name, default_value |-> default]

\* the variable lists the parent passes
VariablesPool ==
    {<<>>,
     <<BackendVariable(1, <<"a">>, <<>>)>>,
     <<BackendVariable(1, <<"a">>, <<"x">>)>>,
     <<BackendVariable(1, <<"a">>, <<"x">>), BackendVariable(2, <<"b">>, <<"y">>)>>,
     <<BackendVariable(1, <<"a">>, <<"y", "{", "{", "a", "}", "}">>)>>,
     <<BackendVariable(1, <<"a">>, <<"$", "&">>)>>,
     <<BackendVariable(1, <<"A">>, <<"x">>)>>}

\* no PromptWithVariables is mounted
NoPrompt ==
    /\ promptValue = <<>>
    /\ promptVariables = <<>>
    /\ showPreview = TRUE
    /\ parsedVariables = <<>>
    /\ previewText = <<>>

\* the parent passes a new text
onChange(newValue) ==
    /\ newValue # promptValue
    /\ promptValue' = newValue
    /\ Effects(newValue, promptVariables, showPreview)
    /\ UNCHANGED <<promptVariables, showPreview>>
    /\ UNCHANGED <<storage, storeVars, recentVars, dialogVarsOfPopup, event, adding,
                   templateVars>>

\* the parent passes a new variable list
setVariables(newVariables) ==
    /\ newVariables # promptVariables
    /\ promptVariables' = newVariables
    /\ Effects(promptValue, newVariables, showPreview)
    /\ UNCHANGED <<promptValue, showPreview>>
    /\ UNCHANGED <<storage, storeVars, recentVars, dialogVarsOfPopup, event, adding,
                   templateVars>>

\* the parent switches the preview on or off
setShowPreview ==
    /\ showPreview' = ~showPreview
    /\ Effects(promptValue, promptVariables, ~showPreview)
    /\ UNCHANGED <<promptValue, promptVariables>>
    /\ UNCHANGED <<storage, storeVars, recentVars, dialogVarsOfPopup, event, adding,
                   templateVars>>

----------------------------------------------------------------------------
(* The popup: templates and the dialog of their variables *)

\* str.replace(new RegExp('\\[' + key + '\\]', 'g'), replacement), for a key
\* without characters that are special in a regular expression: every match
\* of the text pattern, found from offset i on in str as it was passed
RECURSIVE RegExpReplaceAll(_, _, _, _)
RegExpReplaceAll(str, pattern, replacement, i) ==
    IF i + Len(pattern) > Len(str) THEN Slice(str, i, Len(str))
    ELSE IF Slice(str, i, i + Len(pattern)) = pattern
    THEN Substitution(replacement, pattern, Slice(str, 0, i),
                      Slice(str, i + Len(pattern), Len(str)))
             \o RegExpReplaceAll(str, pattern, replacement, i + Len(pattern))
    ELSE <<str[i + 1]>> \o RegExpReplaceAll(str, pattern, replacement, i + 1)

\* replaceVariables(prompt, variables), the entries of variables in the order
\* of Object.entries
RECURSIVE replaceVariables(_, _)
replaceVariables(prompt, variables) ==
    IF variables = <<>> THEN prompt
    ELSE replaceVariables(
             RegExpReplaceAll(prompt, <<"[">> \o Head(variables).key \o <<"]">>,
                              Head(variables).value, 0),
             Tail(variables))

\* the templates: a prompt and the names of its variables
TemplatePool ==
    {[prompt |-> <<"[", "A", "]", " ", "[", "B", "]">>, variables |-> <<<<"A">>, <<"B">>>>],
     [prompt |-> <<"[", "B", "]", "[", "A", "]", "[", "B", "]">>,
      variables |-> <<<<"B">>, <<"A">>>>],
     [prompt |-> <<"a", "[", "A", "]">>, variables |-> <<<<"A">>>>],
     [prompt |-> <<"a">>, variables |-> <<>>]}

\* what is typed into a field of the dialog
TemplateValuePool == {<<"x">>, <<"y">>, <<"[", "A", "]">>, <<"[", "B", "]">>, <<"$", "&">>}

ClosedTemplateDialog == [open |-> FALSE, template |-> <<>>, variables |-> <<>>]

\* no template is being filled in and the form is empty
NoTemplate ==
    /\ promptData = [prompt |-> <<>>]
    /\ variableDialog = ClosedTemplateDialog

\* handleUseTemplate(template)
handleUseTemplate(template) ==
    /\ ~variableDialog.open
    /\ IF Len(template.variables) > 0
       THEN /\ variableDialog' =
                   [open |-> TRUE, template |-> <<template>>,
                    variables |-> [k \in DOMAIN template.variables |->
                                      [key |-> template.variables[k], value |-> <<>>]]]
            /\ UNCHANGED promptData
       ELSE /\ promptData' = [promptData EXCEPT !.prompt = template.prompt]
            /\ UNCHANGED variableDialog
    /\ event' = "handleUseTemplate"
    /\ UNCHANGED <<storage, storeVars, recentVars, dialogVarsOfPopup, previewVars, adding>>

\* handleVariableChange(variable, value), from the field of the variable
handleVariableChange(k, value) ==
    /\ variableDialog.open
    /\ k \in DOMAIN variableDialog.variables
    /\ variableDialog' = [variableDialog EXCEPT !.variables[k].value = value]
    /\ event' = "handleVariableChange"
    /\ UNCHANGED <<storage, storeVars, recentVars, dialogVarsOfPopup, previewVars, adding,
                   promptData>>

\* handleApplyTemplate, from the button that is disabled while a value is blank
handleApplyTemplate ==
    /\ variableDialog.open
    /\ \A k \in DOMAIN variableDialog.variables :
           ~IsBlank(variableDialog.variables[k].value)
    /\ IF variableDialog.template # <<>>
       THEN /\ promptData' =
                   [promptData EXCEPT !.prompt =
                       replaceVariables(variableDialog.template[1].prompt,
                                        variableDialog.variables)]
            /\ variableDialog' = ClosedTemplateDialog
       ELSE UNCHANGED <<promptData, variableDialog>>
    /\ event' = "handleApplyTemplate"
    /\ UNCHANGED <<storage, storeVars, recentVars, dialogVarsOfPopup, previewVars, adding>>

\* handleCancelTemplate: the Cancel button and the dialog's onClose
handleCancelTemplate ==
    /\ variableDialog.open
    /\ variableDialog' = ClosedTemplateDialog
    /\ event' = "handleCancelTemplate"
    /\ UNCHANGED <<storage, storeVars, recentVars, dialogVarsOfPopup, previewVars, adding,
                   promptData>>

----------------------------------------------------------------------------

Init ==
    /\ storage = [user_variables |-> Absent, recent_prompts |-> Absent]
    /\ nextId = 0
    /\ now = 0
    /\ calls = 0
    /\ lastOp = NoOp
    /\ onlyAdds = TRUE
    /\ lastValue = [n \in NamePool |-> <<>>]
    /\ userVariables = <<>>
    /\ error = ""
    /\ rpPc = [c \in Callers |-> "idle"]
    /\ rpRead = [c \in Callers |-> <<>>]
    /\ history = <<>>
    /\ racy = FALSE
    /\ overlaps = 0
    /\ optimizationResult = <<>>
    /\ variableReplaceDialog = ClosedDialog
    /\ inflight = <<>>
    /\ mutation = "idle"
    /\ response = <<>>
    /\ recentPrompts = <<>>
    /\ parsedFrom = <<>>
    /\ event = ""
    /\ budget = MaxBudget
    /\ NoPrompt
    /\ adding = [c \in Callers |-> <<>>]
    /\ NoTemplate

Next ==
    \/ \E n \in NamePool, v \in ValuePool : addUserVariable(n, v)
    \/ \E i \in IdPool, n \in NamePool, v \in ValuePool : updateUserVariable(i, n, v)
    \/ \E i \in IdPool : removeUserVariable(i)
    \/ \E n \in DialogNamePool, v \in ValuePool \cup {<<>>} :
          handleSaveVariable(0, n, v)
    \/ \E i \in DOMAIN userVariables, n \in DialogNamePool, v \in ValuePool :
          handleSaveVariable(userVariables[i].id, n, v)
    \/ \E i \in DOMAIN userVariables : handleDeleteVariable(userVariables[i].id)
    \/ errorTimeout
    \/ Tick

Spec == Init /\ [][Next]_vars

\* The collections a popup finds in storage when it is opened: none, and what
\* addUserVariable calls for N, or for N and then M, have left.
StoredVariable(id, name, value) ==
    [id |-> id, name |-> name, value |-> value, description |-> "",
     category |-> "", timestamp |-> 0]

StoredPool ==
    {<<>>,
     <<StoredVariable(1, <<"N">>, <<"x">>)>>,
     <<StoredVariable(1, <<"N">>, <<"x">>), StoredVariable(2, <<"M">>, <<"y">>)>>}

\* the popup once the effect of its mount has loaded the variables
InitPopup ==
    \E stored \in StoredPool :
        /\ storage = [user_variables |-> IF stored = <<>> THEN Absent ELSE <<stored>>,
                      recent_prompts |-> Absent]
        /\ nextId = Len(stored)
        /\ now = 0
        /\ calls = Len(stored)
        /\ lastOp = NoOp
        /\ onlyAdds = TRUE
        /\ lastValue = [n \in NamePool |->
                           LET i == FindIndexByName(stored, n)
                           IN  IF i = 0 THEN <<>> ELSE <<stored[i].value>>]
        /\ userVariables = stored
        /\ error = ""
        /\ rpPc = [c \in Callers |-> "idle"]
        /\ rpRead = [c \in Callers |-> <<>>]
        /\ history = <<>>
        /\ racy = FALSE
        /\ overlaps = 0
        /\ optimizationResult = <<>>
        /\ variableReplaceDialog = ClosedDialog
        /\ inflight = <<>>
        /\ mutation = "idle"
        /\ response = <<>>
        /\ recentPrompts = <<>>
        /\ parsedFrom = <<>>
        /\ event = ""
        /\ budget = MaxBudget
        /\ NoPrompt
        /\ adding = [c \in Callers |-> <<>>]
        /\ NoTemplate

\* the popup with its replace dialog
NextPopup ==
    \/ handleOptimize
    \/ \E t \in TextPool : optimizeSuccess(t)
    \/ resultTimer
    \/ \E i \in DOMAIN userVariables :
          /\ optimizationResult # <<>>
          /\ ~variableReplaceDialog.open
          /\ handleInsertVariable(userVariables[i].name)
    \/ \E o \in Range(parseVariablesFromText(ShownText)) : handleVariableClick(o)
    \/ \E v \in ValuePool : dialogType(v)
    \/ dialogUseExisting
    \/ \E i \in DOMAIN userVariables : dialogSelect(userVariables[i])
    \/ handleReplaceVariable
    \/ \E i \in DOMAIN inflight : replaceAdd(i)
    \/ \E i \in DOMAIN inflight : replaceFinish(i)
    \/ handleCancelVariableReplace

SpecPopup == InitPopup /\ [][NextPopup]_vars

\* the variable API and the popup's variable handlers over a backend that may
\* be missing and whose calls may reject
NextFaulty ==
    \/ \E f \in FaultPool, n \in NamePool, v \in ValuePool :
          calls < MaxFaultyCalls /\ addUserVariableWith(f, n, v)
    \/ \E f \in FaultPool, i \in IdPool, n \in NamePool, v \in ValuePool :
          calls < MaxFaultyCalls /\ updateUserVariableWith(f, i, n, v)
    \/ \E f \in FaultPool, i \in IdPool :
          calls < MaxFaultyCalls /\ removeUserVariableWith(f, i)
    \/ \E f \in FaultPool, r \in {"ok", "error"}, n \in DialogNamePool,
           v \in ValuePool \cup {<<>>} :
          calls < MaxFaultyCalls /\ handleSaveVariableWith(f, r, 0, n, v)
    \/ \E f \in FaultPool, r \in {"ok", "error"}, i \in DOMAIN userVariables,
           n \in DialogNamePool, v \in ValuePool :
          calls < MaxFaultyCalls
              /\ handleSaveVariableWith(f, r, userVariables[i].id, n, v)
    \/ \E f \in FaultPool, r \in {"ok", "error"}, i \in DOMAIN userVariables :
          calls < MaxFaultyCalls /\ handleDeleteVariableWith(f, r, userVariables[i].id)
    \/ errorTimeout

SpecFaulty == Init /\ [][NextFaulty]_vars

\* the characters of the optimized texts
ResultAlphabet == {"[", "]", "N", "M"}

\* what the optimization API may have answered with
ResultTexts == UNION {[1 .. k -> ResultAlphabet] : k \in 0 .. MaxResultLen}

\* the popup with the variables loaded, showing no result or the result text
InitResult ==
    \E stored \in StoredPool, result \in {<<>>} \cup {<<text>> : text \in ResultTexts} :
        /\ storage = [user_variables |-> IF stored = <<>> THEN Absent ELSE <<stored>>,
                      recent_prompts |-> Absent]
        /\ nextId = Len(stored)
        /\ now = 0
        /\ calls = Len(stored)
        /\ lastOp = NoOp
        /\ onlyAdds = TRUE
        /\ lastValue = [n \in NamePool |->
                           LET i == FindIndexByName(stored, n)
                           IN  IF i = 0 THEN <<>> ELSE <<stored[i].value>>]
        /\ userVariables = stored
        /\ error = ""
        /\ rpPc = [c \in Callers |-> "idle"]
        /\ rpRead = [c \in Callers |-> <<>>]
        /\ history = <<>>
        /\ racy = FALSE
        /\ overlaps = 0
        /\ optimizationResult = result
        /\ variableReplaceDialog = ClosedDialog
        /\ inflight = <<>>
        /\ mutation = "idle"
        /\ response = <<>>
        /\ recentPrompts = <<>>
        /\ parsedFrom = <<>>
        /\ event = ""
        /\ budget = MaxResultEvents
        /\ NoPrompt
        /\ adding = [c \in Callers |-> <<>>]
        /\ NoTemplate

\* the result text: its occurrences are selected, variables are inserted
NextResult ==
    \/ \E i \in DOMAIN userVariables : handleInsertVariable(userVariables[i].name)
    \/ \E o \in Range(parseVariablesFromText(ShownText)) : handleVariableClick(o)
    \/ handleCancelVariableReplace

SpecResult == InitResult /\ [][NextResult]_vars

\* the pieces of the optimized texts whose occurrences are replaced
ReplaceTokenPool == {<<"[", "N", "]">>, <<"[", "M", "]">>, <<"[">>, <<"]">>, <<"a">>}

RECURSIVE ReplaceTexts(_)
ReplaceTexts(n) ==
    IF n = 0 THEN {<<>>}
    ELSE ReplaceTexts(n - 1)
             \cup {t \o k : t \in ReplaceTexts(n - 1), k \in ReplaceTokenPool}

\* what is typed into the dialog's "New Value"
ReplaceValuePool == ValuePool \cup {<<"[", "M", "]">>}

\* the upsert of a confirm is served, is rejected on its write, or finds no backend
ReplaceFaultPool ==
    {NoFault,
     [backend |-> "available", read |-> "ok", write |-> "error"],
     [backend |-> "unavailable", read |-> "ok", write |-> "ok"]}

\* the popup with the variables loaded, showing an optimized text
InitReplace ==
    \E stored \in StoredPool, text \in ReplaceTexts(MaxReplaceTokens) :
        /\ storage = [user_variables |-> IF stored = <<>> THEN Absent ELSE <<stored>>,
                      recent_prompts |-> Absent]
        /\ nextId = Len(stored)
        /\ now = 0
        /\ calls = Len(stored)
        /\ lastOp = NoOp
        /\ onlyAdds = TRUE
        /\ lastValue = [n \in NamePool |->
                           LET i == FindIndexByName(stored, n)
                           IN  IF i = 0 THEN <<>> ELSE <<stored[i].value>>]
        /\ userVariables = stored
        /\ error = ""
        /\ rpPc = [c \in Callers |-> "idle"]
        /\ rpRead = [c \in Callers |-> <<>>]
        /\ history = <<>>
        /\ racy = FALSE
        /\ overlaps = 0
        /\ optimizationResult = <<text>>
        /\ variableReplaceDialog = ClosedDialog
        /\ inflight = <<>>
        /\ mutation = "idle"
        /\ response = <<>>
        /\ recentPrompts = <<>>
        /\ parsedFrom = <<>>
        /\ event = ""
        /\ budget = MaxReplaceEvents
        /\ NoPrompt
        /\ adding = [c \in Callers |-> <<>>]
        /\ NoTemplate

\* the replace dialog over the shown text, the store calls of a confirm being
\* served, rejected or made with no backend
NextReplace ==
    \/ \E o \in Range(parseVariablesFromText(ShownText)) : handleVariableClick(o)
    \/ \E v \in ReplaceValuePool : dialogType(v)
    \/ dialogUseExisting
    \/ \E i \in DOMAIN userVariables : dialogSelect(userVariables[i])
    \/ handleReplaceVariable
    \/ \E f \in ReplaceFaultPool, i \in DOMAIN inflight : replaceAddWith(f, i)
    \/ \E r \in {"ok", "error"}, i \in DOMAIN inflight : replaceFinishWith(r, i)
    \/ handleCancelVariableReplace

SpecReplace == InitReplace /\ [][NextReplace]_vars

\* PromptWithVariables, mounted with an empty prompt
NextPreview ==
    \/ \E t \in Texts(MaxTokens) : onChange(t)
    \/ \E vs \in VariablesPool : setVariables(vs)
    \/ setShowPreview

SpecPreview == Init /\ [][NextPreview]_vars

\* the characters typed into the prompt
PromptAlphabet == {"{", "}", " ", "a"}

\* PromptWithVariables while its text is typed in, character by character
NextTyping ==
    \/ \E c \in PromptAlphabet :
          Len(promptValue) < MaxPromptLen /\ onChange(Append(promptValue, c))
    \/ \E vs \in VariablesPool : setVariables(vs)

SpecTyping == Init /\ [][NextTyping]_vars

\* the popup with the dialog of a template's variables
NextTemplate ==
    \/ \E template \in TemplatePool : handleUseTemplate(template)
    \/ \E k \in DOMAIN variableDialog.variables, v \in TemplateValuePool :
          handleVariableChange(k, v)
    \/ handleApplyTemplate
    \/ handleCancelTemplate

SpecTemplate == Init /\ [][NextTemplate]_vars

\* addUserVariable under two callers
NextSurfaces ==
    \/ \E c \in Callers, n \in NamePool, v \in ValuePool : addUserVariableRead(c, n, v)
    \/ \E c \in Callers : addUserVariableWrite(c)

SpecSurfaces == Init /\ [][NextSurfaces]_vars

\* the recent-prompt buffer under two callers
NextRecent ==
    \/ \E c \in Callers : addRecentPromptRead(c)
    \/ \E c \in Callers, p \in PromptPool : addRecentPromptWrite(c, p)
    \/ \E c \in Callers : clearRecentPrompts(c)

SpecRecent == Init /\ [][NextRecent]_vars

----------------------------------------------------------------------------
(* Claims about the variable store *)

NamesOf(variables) == {variables[i].name : i \in DOMAIN variables}

NamesUnique(variables) ==
    \A i, j \in DOMAIN variables :
        variables[i].name = variables[j].name => i = j

\* C1: the persisted variable collection holds at most one variable with any
\* given name, whatever sequence of add, update and remove calls produced it,
\* a renaming update included.
C1_UniqueNames == NamesUnique(getUserVariables)

\* C2: an addUserVariable call for a name that is already stored leaves the
\* variable of that name with the id it had before the call.
C2_UpsertKeepsId ==
    [][(calls' = calls + 1 /\ lastOp'.op = "add"
            /\ FindIndexByName(getUserVariables, lastOp'.name) > 0)
        => LET before == getUserVariables
               after == getUserVariables'
           IN  after[FindIndexByName(after, lastOp'.name)].id
                   = before[FindIndexByName(before, lastOp'.name)].id]_vars

\* the state of the collection that C3 describes, after calls of
\* addUserVariable only
OneVariablePerUpsertedName ==
    onlyAdds =>
        LET variables == getUserVariables
        IN  /\ NamesUnique(variables)
            /\ NamesOf(variables) = {n \in NamePool : lastValue[n] # <<>>}
            /\ \A i \in DOMAIN variables :
                   lastValue[variables[i].name] = <<variables[i].value>>

\* the step of the collection that C3 describes
UpsertKeepsPlaceOrAppends ==
    (onlyAdds' /\ calls' = calls + 1) =>
        LET before == getUserVariables
            after == getUserVariables'
            at == FindIndexByName(before, lastOp'.name)
        IN  IF at > 0
            THEN /\ Len(after) = Len(before)
                 /\ after[at].name = lastOp'.name
                 /\ \A i \in DOMAIN before : i # at => after[i] = before[i]
            ELSE /\ Len(after) = Len(before) + 1
                 /\ after[Len(after)].name = lastOp'.name
                 /\ \A i \in DOMAIN before : after[i] = before[i]

\* C3: after addUserVariable calls only, the collection holds exactly one
\* variable per name used, with the value of the last call for that name; a
\* call for a stored name keeps the length and the variable's position, a call
\* for a new name appends one variable.
C3_UpsertOnly ==
    /\ []OneVariablePerUpsertedName
    /\ [][UpsertKeepsPlaceOrAppends]_vars

\* three upserts, the third of a name stored first of two, with a new value
C3_Witness ==
    /\ onlyAdds /\ calls = 3 /\ lastOp.op = "add"
    /\ Len(getUserVariables) = 2
    /\ getUserVariables[1].name = lastOp.name
    /\ getUserVariables[1].id = 3
    /\ getUserVariables[1].value # getUserVariables[2].value

\* C18: updateUserVariable with an id that is not in the collection returns its
\* input as it is, issues no write and leaves the persisted collection as it
\* was; with an id that is in the collection it puts the given variable in the
\* place of that one, with the same id and the timestamp of the call, and
\* returns it.
C18_UpdateById ==
    [][(calls' = calls + 1 /\ lastOp'.op = "update") =>
          LET before == getUserVariables
              after == getUserVariables'
              input == lastOp'.arg[1]
              index == FindIndexById(before, input.id)
          IN  /\ ~lastOp'.threw
              /\ index = 0 =>
                     /\ lastOp'.returned = <<input>>
                     /\ ~lastOp'.wrote
                     /\ storage' = storage
              /\ index > 0 =>
                     /\ lastOp'.wrote
                     /\ Len(after) = Len(before)
                     /\ \A j \in DOMAIN before : j # index => after[j] = before[j]
                     /\ after[index].id = before[index].id
                     /\ after[index].timestamp = now
                     /\ after[index] = [input EXCEPT !.timestamp = now]
                     /\ lastOp'.returned = <<after[index]>>]_vars

\* the first of two stored variables has been updated after time has passed:
\* it has the timestamp of the update, and the second one has its own
C18_Witness ==
    /\ lastOp.op = "update" /\ lastOp.wrote
    /\ Len(getUserVariables) = 2
    /\ getUserVariables[1].id = lastOp.id
    /\ getUserVariables[1].timestamp = 1
    /\ getUserVariables[2].timestamp = 0

\* C19: after removeUserVariable no variable of the collection has the id;
\* the removal of an id that is not in the collection succeeds and leaves the
\* collection as it was; a second removal of the id would write the collection
\* that the first one wrote.
C19_RemoveIdempotent ==
    [][(calls' = calls + 1 /\ lastOp'.op = "remove") =>
          LET before == getUserVariables
              after == getUserVariables'
              id == lastOp'.id
          IN  /\ ~lastOp'.threw
              /\ \A j \in DOMAIN after : after[j].id # id
              /\ FindIndexById(before, id) = 0 => after = before
              /\ FilterOutId(after, id) = after
              /\ \A j \in DOMAIN before :
                     before[j].id # id => \E k \in DOMAIN after : after[k] = before[j]]_vars

\* after two additions an id that is not in the collection has been removed:
\* both variables are still there
C19_Witness ==
    /\ lastOp.op = "remove"
    /\ calls = 3 /\ nextId = 2
    /\ Len(getUserVariables) = 2
    /\ \A j \in DOMAIN getUserVariables : getUserVariables[j].id # lastOp.id

----------------------------------------------------------------------------
(* Claims about the recent-prompt buffer *)

\* the last RECENT_LIMIT entries of h, the latest first
MostRecentFirst(h) ==
    LET n == IF Len(h) > RECENT_LIMIT THEN RECENT_LIMIT ELSE Len(h)
    IN  [i \in 1 .. n |-> h[Len(h) + 1 - i]]

\* caller c completes an addRecentPrompt call that nothing has interleaved with
AddsInOrder(c) ==
    /\ rpPc[c] = "adding" /\ rpPc'[c] = "idle"
    /\ rpRead[c] = getRecentPrompts

\* the added entry comes first, the previous entries follow in their order, and
\* a full buffer loses exactly its last entry
PrependsAndDropsOldest ==
    \A c \in Callers :
        AddsInOrder(c) =>
            LET b == getRecentPrompts
                a == getRecentPrompts'
                new == history'[Len(history')]
            IN  /\ a[1] = new
                /\ new.id \notin {b[i].id : i \in DOMAIN b}
                /\ IF Len(b) >= RECENT_LIMIT
                   THEN /\ Len(a) = RECENT_LIMIT
                        /\ \A i \in 1 .. (RECENT_LIMIT - 1) : a[i + 1] = b[i]
                   ELSE /\ Len(a) = Len(b) + 1
                        /\ \A i \in DOMAIN b : a[i + 1] = b[i]

\* C8: addRecentPrompt puts the new entry before the entries the buffer held,
\* in their order, and keeps the first 20: a buffer of 20 loses exactly its
\* last entry, so after 21 additions the buffer holds the 20 most recent, most
\* recent first, without the first.
C8_RingBuffer ==
    /\ [](~racy => getRecentPrompts = MostRecentFirst(history))
    /\ [][PrependsAndDropsOldest]_vars

\* 21 additions, one after the other
C8_Witness ==
    /\ ~racy
    /\ Len(history) = RECENT_LIMIT + 1
    /\ Len(getRecentPrompts) = RECENT_LIMIT
    /\ getRecentPrompts[1] = history[RECENT_LIMIT + 1]
    /\ getRecentPrompts[RECENT_LIMIT] = history[2]
    /\ history[1] \notin Range(getRecentPrompts)

\* a clearRecentPrompts call completes
Clears == rpPc' = rpPc /\ history' = <<>> /\ ~racy'

\* C9: whatever the interleaving of the reads and writes of two callers of
\* addRecentPrompt and clearRecentPrompts, the persisted buffer holds at most 20
\* entries, and it reads back as empty once clearRecentPrompts has completed.
C9_AtMostTwenty ==
    /\ [](Len(getRecentPrompts) <= RECENT_LIMIT)
    /\ [][Clears => getRecentPrompts' = <<>>]_vars

\* a full buffer written by a call that read it before another call's write
C9_Witness ==
    /\ racy
    /\ Len(getRecentPrompts) = RECENT_LIMIT
    /\ Len(history) > RECENT_LIMIT + 1

----------------------------------------------------------------------------
(* Claims about the replacement of one occurrence *)

\* t[0..start) + v + t[end..), character by character
SpanReplaced(t, start, end, v) ==
    LET s == IF start > Len(t) THEN Len(t) ELSE start
        e == IF end > Len(t) THEN Len(t) ELSE end
    IN  [k \in 1 .. (s + Len(v) + Len(t) - e) |->
            IF k <= s THEN t[k]
            ELSE IF k <= s + Len(v) THEN v[k - s]
            ELSE t[k - Len(v) - s + e]]

\* [start,end) is the span of an occurrence of t, and the characters of every
\* other occurrence of t are in t2, behind the span shifted by the change of length
OthersKept(t, start, end, v, t2) ==
    LET d == Len(v) - (end - start)
    IN  /\ \E o \in Range(parseVariablesFromText(t)) :
               /\ o.start = start /\ o.end = end
               /\ Slice(t, start, end) = <<"[">> \o o.name \o <<"]">>
        /\ \A o \in Range(parseVariablesFromText(t)) :
               /\ o.end <= start =>
                      Slice(t2, o.start, o.end) = <<"[">> \o o.name \o <<"]">>
               /\ o.start >= end =>
                      Slice(t2, o.start + d, o.end + d) = <<"[">> \o o.name \o <<"]">>

\* the replacement of the confirm with text t, span [start,end) parsed from
\* the text from, and value v
Replaces(t, from, position, v) ==
    /\ optimizationResult' = <<SpanReplaced(t, position.start, position.end, v)>>
    /\ from = <<t>> => OthersKept(t, position.start, position.end, v,
                                   optimizationResult'[1])

\* a confirm with an existing variable
ConfirmsExisting == event' = "replacedWithExisting"

\* the i-th confirm in flight completes
Completes(i) ==
    /\ event' = "replaceFinish"
    /\ i \in DOMAIN inflight
    /\ inflight[i].pc = "getUserVariables"
    /\ inflight' = RemoveAt(inflight, i)

\* C4: a confirmed replacement of the span [start,end) by v turns the text t of
\* the confirm into t[0..start) + v + t[end..), and the other occurrences of t,
\* those of the same name included, keep their characters.
C4_OnlyTheSpan ==
    [][/\ ConfirmsExisting =>
              Replaces(optimizationResult[1], parsedFrom,
                       variableReplaceDialog.position,
                       variableReplaceDialog.selectedVariable[1].value)
       /\ \A i \in DOMAIN inflight :
              Completes(i)
                  => Replaces(inflight[i].text, inflight[i].parsedFrom,
                              inflight[i].position, inflight[i].replacementValue)]_vars

\* the first of two occurrences of N has been replaced and the second one,
\* moved forward, is still in the text
C4_Witness ==
    /\ event \in {"replaceFinish", "replacedWithExisting"}
    /\ Len(ShownText) = 5
    /\ parseVariablesFromText(ShownText) = <<[name |-> <<"N">>, start |-> 2, end |-> 5]>>

\* what C5 says of the state in which the i-th confirm in flight completes
UpsertedThenReplaced(i) ==
    LET f == inflight[i]
        named == {k \in DOMAIN getUserVariables' :
                      getUserVariables'[k].name = f.variableName}
    IN  /\ optimizationResult' =
               <<SpanReplaced(f.text, f.position.start, f.position.end, f.currentValue)>>
        /\ Cardinality(named) = 1
        /\ \A k \in named : getUserVariables'[k].value = f.currentValue
        /\ userVariables' = getUserVariables'
        /\ variableReplaceDialog' = ClosedDialog

\* C5: a confirm with a new or edited value upserts the variable of the
\* occurrence's name with the candidate value and replaces the occurrence by the
\* upserted variable's value; when it completes the store holds exactly one
\* variable of that name, with the candidate value, the in-memory list equals
\* the persisted collection and the dialog is idle.
C5_ConfirmNew ==
    [][\A i \in DOMAIN inflight : Completes(i) => UpsertedThenReplaced(i)]_vars

\* C6: a confirm with an existing variable writes nothing to the store, the
\* persisted collection and the in-memory list are what they were, and the
\* occurrence is replaced by the value of the selected variable, whatever the
\* text field holds; the selected variable is one of the persisted collection
\* when no confirm with a new value is in flight.
C6_ExistingReadOnly ==
    [][ConfirmsExisting =>
          /\ storage' = storage
          /\ userVariables' = userVariables
          /\ nextId' = nextId /\ calls' = calls
          /\ variableReplaceDialog.selectedVariable[1] \in Range(userVariables)
          /\ inflight = <<>> =>
                 variableReplaceDialog.selectedVariable[1] \in Range(getUserVariables)
          /\ optimizationResult' =
                 <<SpanReplaced(optimizationResult[1],
                                variableReplaceDialog.position.start,
                                variableReplaceDialog.position.end,
                                variableReplaceDialog.selectedVariable[1].value)>>
          /\ variableReplaceDialog' = ClosedDialog]_vars

\* [M] has been replaced by the stored value of N although the text field held
\* another value
C6_Witness ==
    /\ event = "replacedWithExisting"
    /\ ShownText = <<"a", "x">>
    /\ Len(getUserVariables) = 2

\* C7: cancelling the dialog when no confirm has been issued leaves the text,
\* the persisted collection and the in-memory list as they were and puts the
\* dialog back to idle, without the captured name, offsets and value.
C7_CancelDiscards ==
    [][(event' = "handleCancelVariableReplace" /\ inflight = <<>>) =>
          /\ optimizationResult' = optimizationResult
          /\ storage' = storage
          /\ userVariables' = userVariables
          /\ inflight' = <<>>
          /\ variableReplaceDialog' =
                 [open |-> FALSE, variableName |-> <<>>, currentValue |-> <<>>,
                  position |-> [start |-> 0, end |-> 0], useExisting |-> FALSE,
                  selectedVariable |-> <<>>]]_vars

\* the dialog was cancelled with a value typed in, and nothing else has changed
C7_Witness ==
    /\ event = "handleCancelVariableReplace"
    /\ inflight = <<>>
    /\ variableReplaceDialog = ClosedDialog
    /\ ShownText \in TextPool
    /\ budget <= MaxBudget - 4

----------------------------------------------------------------------------
(* Claims about the preview *)

\* the text from offset i on, with the span of every occurrence whose trimmed
\* name is that of a variable with a non-empty value replaced by the value
RECURSIVE SpansReplaced(_, _, _)
SpansReplaced(text, vs, i) ==
    IF i >= Len(text) THEN <<>>
    ELSE LET e == BraceMatchEnd(text, i)
         IN  IF e = 0 THEN <<text[i + 1]>> \o SpansReplaced(text, vs, i + 1)
             ELSE LET name == Trim(Slice(text, i + 2, e - 2))
                      found == Find(vs, name)
                  IN  IF name # <<>> /\ found # <<>> /\ found[1].default_value # <<>>
                      THEN found[1].default_value \o SpansReplaced(text, vs, e)
                      ELSE Slice(text, i, e) \o SpansReplaced(text, vs, e)

\* C10: the preview of a text is the text with the span of each occurrence
\* whose trimmed name matches a variable with a non-empty value replaced by
\* that value, and every other character verbatim: for repeated names, for
\* placeholders with inner blanks and for values that hold placeholder syntax.
C10_PreviewSubstitutes ==
    (showPreview /\ promptValue # <<>>) =>
        previewText = SpansReplaced(promptValue, promptVariables, 0)

----------------------------------------------------------------------------
(* Claims about the occurrences of PromptWithVariables *)

\* how many elements of the sequence s satisfy Test
Count(s, Test(_)) == Len(SelectSeq(s, Test))

\* C11: an occurrence is valid exactly when the current variable list holds a
\* variable of exactly its name (the case of the letters included); an
\* occurrence is in exactly one of invalidVariables and usedVariables, and the
\* occurrences of one name are reported one by one.
C11_Classified ==
    /\ Len(invalidVariables) + Len(usedVariables) = Len(parsedVariables)
    /\ \A k \in DOMAIN parsedVariables :
           LET p == parsedVariables[k]
               sameName == Count(parsedVariables, LAMBDA q : q.name = p.name)
               known == \E i \in DOMAIN promptVariables : promptVariables[i].name = p.name
           IN  /\ p.isValid <=> known
               /\ known =>
                      /\ Count(usedVariables, LAMBDA v : v.name = p.name) = sameName
                      /\ Count(invalidVariables, LAMBDA q : q.name = p.name) = 0
               /\ ~known =>
                      /\ Count(invalidVariables, LAMBDA q : q = p) = 1
                      /\ Count(invalidVariables, LAMBDA q : q.name = p.name) = sameName
                      /\ Count(usedVariables, LAMBDA v : v.name = p.name) = 0

\* two occurrences of a, and the only variable is named A: both are invalid
C11_Witness ==
    /\ promptValue = <<"{", "{", "a", "}", "}", "{", "{", "a", "}", "}">>
    /\ \E i \in DOMAIN promptVariables : promptVariables[i].name = <<"A">>
    /\ Len(invalidVariables) = 2
    /\ usedVariables = <<>>

----------------------------------------------------------------------------
(* Claims about the bracket parser *)

\* the offsets of the "]" that close a well-formed placeholder of the text t:
\* a "[" lies before, at least one character lies between, and none of the
\* characters between is a "]"
ClosingOffsets(t) ==
    {r \in 0 .. (Len(t) - 1) :
        /\ t[r + 1] = "]"
        /\ \E l \in 0 .. (r - 2) :
               /\ t[l + 1] = "["
               /\ \A m \in (l + 1) .. (r - 1) : t[m + 1] # "]"}

\* C12: of a text with n well-formed placeholders the parser returns n
\* occurrences; each has 0 <= start < end <= length and the characters
\* "[" name "]" at [start,end), and each ends at or before the start of the
\* next one, so the starts increase and adjacent placeholders are two occurrences.
C12_BracketOccurrences ==
    LET t == ShownText
        occurrences == parseVariablesFromText(t)
    IN  /\ Len(occurrences) = Cardinality(ClosingOffsets(t))
        /\ \A k \in DOMAIN occurrences :
               LET o == occurrences[k]
               IN  /\ 0 <= o.start /\ o.start < o.end /\ o.end <= Len(t)
                   /\ Slice(t, o.start, o.end) = <<"[">> \o o.name \o <<"]">>
                   /\ k < Len(occurrences) =>
                          /\ o.end <= occurrences[k + 1].start
                          /\ o.start < occurrences[k + 1].start

\* the adjacent placeholders [N][M] are shown and one of them has been selected
C12_Witness ==
    /\ ShownText = <<"[", "N", "]", "[", "M", "]">>
    /\ parseVariablesFromText(ShownText) =
           <<[name |-> <<"N">>, start |-> 0, end |-> 3],
             [name |-> <<"M">>, start |-> 3, end |-> 6]>>
    /\ variableReplaceDialog.open
    /\ variableReplaceDialog.position = [start |-> 3, end |-> 6]

\* C14: the parser ends with a list for every text: a "[" with no "]" behind
\* it and the pair "[]" start no occurrence, and an occurrence runs from the
\* first "[" that can start one to the nearest "]" behind it, a further "[" in
\* between being a character of the name.
C14_NearestClosing ==
    LET t == ShownText
        occurrences == parseVariablesFromText(t)
        starts == {occurrences[k].start : k \in DOMAIN occurrences}
    IN  /\ occurrences \in Seq(Range(occurrences))
        /\ 3 * Len(occurrences) <= Len(t)
        /\ \A l \in 0 .. (Len(t) - 1) :
               /\ (t[l + 1] = "[" /\ \A r \in (l + 1) .. (Len(t) - 1) : t[r + 1] # "]")
                      => \A k \in DOMAIN occurrences : occurrences[k].end <= l
               /\ (t[l + 1] = "[" /\ l + 1 < Len(t) /\ t[l + 2] = "]") => l \notin starts
        /\ \A k \in DOMAIN occurrences :
               LET o == occurrences[k]
                   resumed == IF k = 1 THEN 0 ELSE occurrences[k - 1].end
               IN  /\ t[o.start + 1] = "[" /\ t[o.end] = "]"
                   /\ \A m \in (o.start + 1) .. (o.end - 2) : t[m + 1] # "]"
                   /\ \A l \in resumed .. (o.start - 1) : t[l + 1] = "[" => t[l + 2] = "]"

\* [[N][ is shown: the occurrence [[N] with the name [N is selected, and the
\* last "[" starts nothing
C14_Witness ==
    /\ ShownText = <<"[", "[", "N", "]", "[">>
    /\ parseVariablesFromText(ShownText) =
           <<[name |-> <<"[", "N">>, start |-> 0, end |-> 4]>>
    /\ variableReplaceDialog.open
    /\ variableReplaceDialog.variableName = <<"[", "N">>

\* C20: the insertion of a variable by its name turns the optimized text t
\* into t, a blank, "[", the name and "]"; it writes nothing to the variable
\* store, leaves the replace dialog as it is, and does nothing when there is no
\* optimization result.
C20_InsertAppends ==
    [][event' = "handleInsertVariable" =>
          /\ optimizationResult = <<>> => optimizationResult' = <<>>
          /\ optimizationResult # <<>> =>
                 \E i \in DOMAIN userVariables :
                     optimizationResult' =
                         <<optimizationResult[1] \o <<" ", "[">>
                               \o userVariables[i].name \o <<"]">>>>
          /\ storage' = storage
          /\ userVariables' = userVariables
          /\ calls' = calls /\ nextId' = nextId
          /\ variableReplaceDialog' = variableReplaceDialog
          /\ inflight' = inflight]_vars

\* [N] was selected and M was inserted behind it while the dialog was open
C20_Witness ==
    /\ event = "handleInsertVariable"
    /\ ShownText = <<"[", "N", "]", " ", "[", "M", "]">>
    /\ variableReplaceDialog.open
    /\ variableReplaceDialog.position = [start |-> 0, end |-> 3]
    /\ storage.user_variables # Absent

----------------------------------------------------------------------------
(* Claims about the placeholders in double braces *)

Blanks(n) == [i \in 1 .. n |-> " "]

\* the offsets of the "}}" that close a placeholder of the text t: "{{" lies
\* before, at least one character lies between, and none of the characters
\* between is a "}"
BraceClosingOffsets(t) ==
    {r \in 0 .. (Len(t) - 2) :
        /\ t[r + 1] = "}" /\ t[r + 2] = "}"
        /\ \E l \in 0 .. (r - 3) :
               /\ t[l + 1] = "{" /\ t[l + 2] = "{"
               /\ \A m \in (l + 2) .. (r - 1) : t[m + 1] # "}"}

\* the placeholders of t, by their closing offsets, whose inner text is not blank
NamedClosingOffsets(t) ==
    {r \in BraceClosingOffsets(t) :
        \E l \in 0 .. (r - 3) :
            /\ t[l + 1] = "{" /\ t[l + 2] = "{"
            /\ \A m \in (l + 2) .. (r - 1) : t[m + 1] # "}"
            /\ \E m \in (l + 2) .. (r - 1) : t[m + 1] # " "}

\* C13: the name of an occurrence is the text between "{{" and "}}" without
\* its leading and trailing blanks; a placeholder with an empty or blank inner
\* text is no occurrence; the offsets of an occurrence span the placeholder
\* with its delimiters and inner blanks.
C13_TrimmedNames ==
    LET t == promptValue
    IN  /\ {p.endIndex - 2 : p \in Range(parsedVariables)} = NamedClosingOffsets(t)
        /\ Len(parsedVariables) = Cardinality(NamedClosingOffsets(t))
        /\ \A k \in DOMAIN parsedVariables :
               LET p == parsedVariables[k]
                   inner == Slice(t, p.startIndex + 2, p.endIndex - 2)
               IN  /\ 0 <= p.startIndex /\ p.startIndex + 4 < p.endIndex
                   /\ p.endIndex <= Len(t)
                   /\ Slice(t, p.startIndex, p.startIndex + 2) = <<"{", "{">>
                   /\ Slice(t, p.endIndex - 2, p.endIndex) = <<"}", "}">>
                   /\ \A m \in DOMAIN inner : inner[m] # "}"
                   /\ p.name # <<>>
                   /\ p.name[1] # " " /\ p.name[Len(p.name)] # " "
                   /\ \E before \in 0 .. (Len(inner) - Len(p.name)) :
                          inner = Blanks(before) \o p.name
                                      \o Blanks(Len(inner) - Len(p.name) - before)

\* {{ a }} is typed in: one occurrence named a that spans the seven characters
C13_Witness ==
    /\ promptValue = <<"{", "{", " ", "a", " ", "}", "}">>
    /\ Len(parsedVariables) = 1
    /\ parsedVariables[1].name = <<"a">>
    /\ parsedVariables[1].startIndex = 0
    /\ parsedVariables[1].endIndex = 7

----------------------------------------------------------------------------
(* Claims about the variable store over a faulty backend *)

\* a call of the variable API has been made in this step
StoreCall == calls' = calls + 1

\* the backend has rejected the write of the call made in this step
WriteFailed ==
    /\ StoreCall
    /\ lastOp'.wrote
    /\ lastOp'.fault.backend = "available"
    /\ lastOp'.fault.write = "error"

\* C15: when the write of addUserVariable, updateUserVariable or
\* removeUserVariable fails, the call fails to its caller (the popup's handler
\* reports the failure), and the persisted collection and the popup's list are
\* what they were; the popup's list is only assigned by a call whose write did
\* not fail, and then it is the result of a read of the storage after the call.
C15_FailedWriteKeepsAll ==
    [][/\ WriteFailed =>
              /\ lastOp'.threw
              /\ lastOp'.returned = <<>>
              /\ storage' = storage
              /\ userVariables' = userVariables
              /\ event' \in {"handleSaveVariable", "handleDeleteVariable"} =>
                     error' \in {"Failed to save variable", "Failed to delete variable"}
       /\ userVariables' # userVariables =>
              /\ StoreCall
              /\ ~WriteFailed
              /\ \E refresh \in {"ok", "error"} :
                     userVariables' =
                         SafeGet(storage', [lastOp'.fault EXCEPT !.read = refresh],
                                 "user_variables")]_vars

\* a save in the popup has failed on its write: the stored variable and the
\* list of the popup are still there, and the failure is shown
C15_Witness ==
    /\ event = "handleSaveVariable"
    /\ lastOp.op = "add" /\ lastOp.threw
    /\ lastOp.fault = [backend |-> "available", read |-> "ok", write |-> "error"]
    /\ error = "Failed to save variable"
    /\ Len(getUserVariables) = 1
    /\ userVariables = getUserVariables

\* what a getUserVariables that follows the call of this step returns, its
\* own read being served
FollowingRead ==
    SafeGet(storage', [lastOp'.fault EXCEPT !.read = "ok"], "user_variables")

\* C16: when addUserVariable returns a variable, or updateUserVariable returns
\* one for an id that is in the collection, the getUserVariables that follows
\* returns a collection that holds the returned variable; no call returns a
\* variable while nothing was persisted.
C16_SuccessIsPersisted ==
    [][(/\ StoreCall
        /\ ~lastOp'.threw
        /\ \/ lastOp'.op = "add"
           \/ /\ lastOp'.op = "update"
              /\ FindIndexById(getUserVariables, lastOp'.id) > 0)
           => \E k \in DOMAIN FollowingRead : FollowingRead[k] = lastOp'.returned[1]]_vars

\* the backend has rejected the read of the call made in this step
ReadFailed ==
    /\ StoreCall
    /\ lastOp'.fault.backend = "available"
    /\ lastOp'.fault.read = "error"

\* C17: when the read inside addUserVariable, updateUserVariable or
\* removeUserVariable fails, the call fails to its caller and the persisted
\* collection is what it was: no collection computed from the empty fallback
\* is written.
C17_FailedReadSurfaces ==
    [][ReadFailed => (lastOp'.threw /\ storage' = storage)]_vars

----------------------------------------------------------------------------
(* Claims about a confirm and the parse of its result *)

\* the occurrences of the text that have the name
Named(text, name) ==
    SelectSeq(parseVariablesFromText(text), LAMBDA o : o.name = name)

\* an occurrence of the name is resolved: the list holds a variable of the name
ResolvedIn(list, name) == FindIndexByName(list, name) > 0

\* the value holds no bracket
NoBrackets(v) == \A k \in DOMAIN v : v[k] \notin {"[", "]"}

\* the i-th confirm in flight completes; it was issued for one of at least two
\* occurrences of its name in the text shown, with a value free of brackets,
\* and the list of the popup holds no variable of the name
CompletesOneOfSeveral(i) ==
    /\ Completes(i)
    /\ inflight[i].parsedFrom = <<inflight[i].text>>
    /\ Len(Named(inflight[i].text, inflight[i].variableName)) >= 2
    /\ NoBrackets(inflight[i].replacementValue)
    /\ ~ResolvedIn(userVariables, inflight[i].variableName)

\* C21 as it was stated: from a store with no variable named N and a text with
\* k >= 2 occurrences of [N], the confirm of one occurrence with a new value
\* free of placeholder syntax gives a text whose parse has exactly k - 1
\* occurrences of N, each of them unresolved.
C21_OthersUnresolved ==
    [][\A i \in DOMAIN inflight :
          CompletesOneOfSeveral(i) =>
              LET name == inflight[i].variableName
                  k == Len(Named(inflight[i].text, name))
              IN  /\ Len(Named(optimizationResult'[1], name)) = k - 1
                  /\ ~ResolvedIn(userVariables', name)]_vars

\* C21, amended: the parse of the resulting text has exactly k - 1 occurrences
\* of N; the confirm has stored N, so each of them is resolved once the list
\* has been read back from a store that has a backend, and they are
\* unresolved only when the list that was read back is empty.
C21_OthersRemain ==
    [][\A i \in DOMAIN inflight :
          CompletesOneOfSeveral(i) =>
              LET name == inflight[i].variableName
                  k == Len(Named(inflight[i].text, name))
              IN  /\ Len(Named(optimizationResult'[1], name)) = k - 1
                  /\ inflight[i].backend = "available" =>
                         ResolvedIn(getUserVariables', name)
                  /\ (inflight[i].backend = "available"
                          /\ userVariables' = getUserVariables')
                         => ResolvedIn(userVariables', name)
                  /\ ~ResolvedIn(userVariables', name) => userVariables' = <<>>]_vars

\* the first of three [N] has been replaced by x from an empty store: two
\* occurrences of N are left, and the list holds N
C21_Witness ==
    /\ event = "replaceFinish"
    /\ ShownText = <<"x", "[", "N", "]", "[", "N", "]">>
    /\ calls = 1
    /\ Len(Named(ShownText, <<"N">>)) = 2
    /\ ResolvedIn(userVariables, <<"N">>)

\* the occurrences of t without the one at the position, those behind it
\* shifted by the change of length that the value v makes
ShiftedOthers(t, position, v) ==
    LET occurrences == parseVariablesFromText(t)
        j == CHOOSE j \in DOMAIN occurrences :
                 /\ occurrences[j].start = position.start
                 /\ occurrences[j].end = position.end
        d == Len(v) - (position.end - position.start)
    IN  [k \in 1 .. (Len(occurrences) - 1) |->
            IF k < j THEN occurrences[k]
            ELSE [name |-> occurrences[k + 1].name,
                  start |-> occurrences[k + 1].start + d,
                  end |-> occurrences[k + 1].end + d]]

\* what C22 says of the text t2 that replaced t, for the occurrence of t at the
\* position and the value v
ReparsedAsShifted(t, position, v, t2) ==
    /\ parseVariablesFromText(t2) = ShiftedOthers(t, position, v)
    /\ \A o \in Range(parseVariablesFromText(t2)) :
           o.end <= position.start \/ o.start >= position.start + Len(v)

\* C22: after the occurrence at [start,end) has been replaced by a value v
\* free of brackets, the parse of the new text is the parse of the previous
\* text without that occurrence, in the same order and with the same names:
\* the occurrences before start at their offsets, those after end shifted by
\* len(v) - (end - start), and none of them overlaps the inserted value.
C22_ReparseShifts ==
    [][/\ (ConfirmsExisting /\ parsedFrom = optimizationResult
              /\ NoBrackets(variableReplaceDialog.selectedVariable[1].value))
           => ReparsedAsShifted(optimizationResult[1], variableReplaceDialog.position,
                                variableReplaceDialog.selectedVariable[1].value,
                                optimizationResult'[1])
       /\ \A i \in DOMAIN inflight :
              (Completes(i) /\ inflight[i].parsedFrom = <<inflight[i].text>>
                  /\ NoBrackets(inflight[i].replacementValue))
              => ReparsedAsShifted(inflight[i].text, inflight[i].position,
                                   inflight[i].replacementValue,
                                   optimizationResult'[1])]_vars

\* the second of three occurrences has been replaced by y: the first one is
\* where it was and the third one has moved two characters to the front
C22_Witness ==
    /\ event = "replaceFinish"
    /\ ShownText = <<"[", "M", "]", "y", "[", "M", "]">>
    /\ parseVariablesFromText(ShownText) =
           <<[name |-> <<"M">>, start |-> 0, end |-> 3],
             [name |-> <<"M">>, start |-> 4, end |-> 7]>>

----------------------------------------------------------------------------
(* Claims about the interleavings of the replace dialog *)

\* C23: a replacement is spliced into the text its offsets were parsed from,
\* whatever selections, insertions, confirms, completions of confirms in
\* flight and arrivals of an optimization result have interleaved; and the
\* text that a completing confirm replaces is the text shown at that moment,
\* so that no change made after the confirm was issued is lost.
C23_OffsetsOfThisText ==
    [][/\ (ConfirmsExisting /\ optimizationResult # <<>>)
              => parsedFrom = optimizationResult
       /\ \A i \in DOMAIN inflight :
              Completes(i)
                  => /\ inflight[i].parsedFrom = <<inflight[i].text>>
                     /\ optimizationResult = <<inflight[i].text>>]_vars

\* the session takes a confirm, a cancel or the selection of an occurrence
TakesDialogEvent ==
    /\ budget' = budget - 1
    /\ event' \in {"handleReplaceVariable", "replacedWithExisting",
                   "handleCancelVariableReplace", "handleVariableClick"}

\* C24: while the store write of a confirm is in flight the session takes no
\* further confirm, cancel or selection, so that at most one confirm is in
\* flight at any time, and a confirm in flight leaves only by applying its
\* replacement or by failing.
C24_OneWriteInFlight ==
    /\ [](Len(inflight) <= 1)
    /\ [][/\ inflight # <<>> => ~TakesDialogEvent
          /\ Len(inflight') < Len(inflight)
                 => event' \in {"replaceFinish", "replaceRejected"}]_vars

\* the upsert of a confirm in flight has been made in this step, and the
\* backend has rejected its write
UpsertFailed ==
    /\ WriteFailed
    /\ lastOp'.op = "add"
    /\ \E i \in DOMAIN inflight : inflight[i].pc = "addUserVariable"

\* C25: when the upsert of a confirm with a new value fails, the handler ends
\* there: the optimized text, the list of the popup and the persisted
\* collection are what they were, and the dialog is left as it is, with the
\* captured name, offsets and candidate value, and not put back to idle.
C25_FailedUpsertKeepsDialog ==
    [][UpsertFailed =>
          /\ lastOp'.threw
          /\ Len(inflight') = Len(inflight) - 1
          /\ \A j \in DOMAIN inflight' : inflight'[j] \in Range(inflight)
          /\ optimizationResult' = optimizationResult
          /\ userVariables' = userVariables
          /\ storage' = storage
          /\ variableReplaceDialog' = variableReplaceDialog
          /\ parsedFrom' = parsedFrom
          /\ error' = error]_vars

\* the confirm of the first [N] with the value y has failed on its write: the
\* text and the empty list are what they were and the dialog still holds N,
\* the offsets and y
C25_Witness ==
    /\ event = "replaceRejected"
    /\ lastOp.threw
    /\ inflight = <<>>
    /\ ShownText = <<"[", "N", "]", "[", "N", "]">>
    /\ userVariables = <<>> /\ getUserVariables = <<>>
    /\ variableReplaceDialog.open
    /\ variableReplaceDialog.variableName = <<"N">>
    /\ variableReplaceDialog.position = [start |-> 0, end |-> 3]
    /\ variableReplaceDialog.currentValue = <<"y">>

----------------------------------------------------------------------------
(* Claims about the stored preview *)

\* C26: with the preview enabled, the stored preview is the preview computed
\* from the current text and the current variables after every change of
\* either; after the text has become empty it is the preview of the empty
\* text, and not that of an earlier text.
C26_PreviewCurrent ==
    showPreview =>
        previewText = Preview(promptValue, promptVariables, 0, promptValue)

----------------------------------------------------------------------------
(* Claims about concurrent callers of the variable store *)

\* the call of c writes in this step
WritesVariable(c) == adding[c] # <<>> /\ adding'[c] = <<>>

\* C27: the store does not merge concurrent writes: a call of addUserVariable
\* leaves the collection with the names it has read and its own name, whatever
\* has been written since its read, and it reports success; so when two
\* callers add different names concurrently, an interleaving of their reads
\* and writes leaves only one of the two variables in the collection.
C27_NoMerge ==
    [][\A c \in Callers :
          WritesVariable(c) =>
              /\ lastOp'.returned # <<>> /\ ~lastOp'.threw
              /\ lastOp'.returned[1] \in Range(getUserVariables')
              /\ NamesOf(getUserVariables') =
                     NamesOf(adding[c][1].variables) \cup {adding[c][1].variable.name}
              /\ \A n \in NamesOf(getUserVariables) \ NamesOf(adding[c][1].variables) :
                     n # adding[c][1].variable.name => n \notin NamesOf(getUserVariables')]_vars

\* two calls with the names N and M have both returned their variable, and
\* the collection holds one variable only
C27_Witness ==
    /\ calls = 2 /\ nextId = 2
    /\ \A c \in Callers : adding[c] = <<>>
    /\ lastValue[<<"N">>] # <<>> /\ lastValue[<<"M">>] # <<>>
    /\ lastOp.returned # <<>>
    /\ Len(getUserVariables) = 1

----------------------------------------------------------------------------
(* Claims about what a call of the variable store leaves alone *)

\* after is before with the element at index i taken out
WithoutIndex(before, i, after) ==
    /\ Len(after) = Len(before) - 1
    /\ \A j \in DOMAIN after : after[j] = IF j < i THEN before[j] ELSE before[j + 1]

\* after is before but for the element at index i
SameButIndex(before, i, after) ==
    /\ Len(after) = Len(before)
    /\ \A j \in DOMAIN before : j # i => after[j] = before[j]

\* C28: a call of addUserVariable, updateUserVariable or removeUserVariable
\* changes at most the variable it targets: every other variable keeps its
\* fields and its place among the others, and a variable of a new name is put
\* behind all the others.
C28_OthersUntouched ==
    [][StoreCall =>
          LET before == getUserVariables
              after == getUserVariables'
          IN  /\ lastOp'.op = "add" =>
                     LET at == FindIndexByName(before, lastOp'.name)
                     IN  IF at > 0
                         THEN /\ SameButIndex(before, at, after)
                              /\ after[at] = lastOp'.returned[1]
                         ELSE /\ Len(after) = Len(before) + 1
                              /\ SameButIndex(before, Len(after), SubSeq(after, 1, Len(before)))
                              /\ after[Len(after)] = lastOp'.returned[1]
              /\ lastOp'.op = "update" =>
                     LET at == FindIndexById(before, lastOp'.id)
                     IN  IF at > 0
                         THEN SameButIndex(before, at, after)
                         ELSE after = before
              /\ lastOp'.op = "remove" =>
                     LET at == FindIndexById(before, lastOp'.id)
                     IN  IF at > 0
                         THEN WithoutIndex(before, at, after)
                         ELSE after = before]_vars

\* N and M were added and N, the first of the two, has been removed: M is
\* left as it was added
C28_Witness ==
    /\ lastOp.op = "remove" /\ lastOp.id = 1
    /\ calls = 3
    /\ Len(getUserVariables) = 1
    /\ getUserVariables[1].id = 2
    /\ getUserVariables[1].name # <<>>

----------------------------------------------------------------------------
(* Claims about the insertion and the parse of its result *)

\* the offsets of the "[" of t that have no "]" behind them
Unterminated(t) ==
    {l \in 0 .. (Len(t) - 1) :
        t[l + 1] = "[" /\ \A r \in (l + 1) .. (Len(t) - 1) : t[r + 1] # "]"}

\* the text t has become t2 by the insertion of a variable of the name n
Inserted(t, n, t2) ==
    /\ event' = "handleInsertVariable"
    /\ optimizationResult = <<t>>
    /\ optimizationResult' = <<t2>>
    /\ \E i \in DOMAIN userVariables : userVariables[i].name = n
    /\ Len(t2) = Len(t) + Len(n) + 3
    /\ Slice(t2, Len(t) + 2, Len(t2) - 1) = n

\* the parse of t2 is the parse of t and one more occurrence, named n, which
\* is the placeholder at the end of t2
AddsLastOccurrence(t, n, t2) ==
    parseVariablesFromText(t2) =
        Append(parseVariablesFromText(t),
               [name |-> n, start |-> Len(t) + 1, end |-> Len(t2)])

\* C29 as it was stated: for every text t, a text with a "[" that has no "]"
\* behind it included, the insertion of a variable named n keeps the
\* occurrences of t with their names and offsets and adds exactly one
\* occurrence, named n, as the last one.
C29_InsertAddsLast ==
    [][\A n \in NamePool :
          Inserted(ShownText, n, optimizationResult'[1])
              => AddsLastOccurrence(ShownText, n, optimizationResult'[1])]_vars

\* C29, amended: for every text t in which every "[" has a "]" behind it, the
\* insertion keeps the occurrences of t and adds exactly one occurrence, named
\* n, as the last one; in a text with a "[" that has no "]" behind it the
\* occurrences of t are kept as well, but the one occurrence added starts at
\* the first such "[" and has the inserted placeholder at the end of its name.
C29_InsertAddsLastIfClosed ==
    [][\A n \in NamePool :
          Inserted(ShownText, n, optimizationResult'[1]) =>
              LET t == ShownText
                  t2 == optimizationResult'[1]
              IN  IF Unterminated(t) = {}
                  THEN AddsLastOccurrence(t, n, t2)
                  ELSE LET l == Min(Unterminated(t))
                       IN  parseVariablesFromText(t2) =
                               Append(parseVariablesFromText(t),
                                      [name |-> Slice(t, l + 1, Len(t)) \o <<" ", "[">> \o n,
                                       start |-> l, end |-> Len(t2)])]_vars

\* M has been inserted behind [N][]: the pair [] is no occurrence, [N] is
\* where it was and [M] is the last occurrence
C29_Witness ==
    /\ event = "handleInsertVariable"
    /\ ShownText = <<"[", "N", "]", "[", "]", " ", "[", "M", "]">>
    /\ parseVariablesFromText(ShownText) =
           <<[name |-> <<"N">>, start |-> 0, end |-> 3],
             [name |-> <<"M">>, start |-> 6, end |-> 9]>>

\* the value given for the key whose placeholder [KEY] stands at offset i of
\* text, as a set: empty when no declared key has its placeholder there
ValuesAt(text, variables, i) ==
    {k \in DOMAIN variables :
        LET pattern == <<"[">> \o variables[k].key \o <<"]">>
        IN  /\ i + Len(pattern) =< Len(text)
            /\ Slice(text, i, i + Len(pattern)) = pattern}

\* every [KEY] occurrence of the original text replaced by the value given
\* for KEY and nothing else, from offset i on
RECURSIVE FilledIn(_, _, _)
FilledIn(text, variables, i) ==
    IF i >= Len(text) THEN <<>>
    ELSE IF ValuesAt(text, variables, i) # {}
    THEN LET k == CHOOSE j \in ValuesAt(text, variables, i) : TRUE
         IN  variables[k].value
                 \o FilledIn(text, variables, i + Len(variables[k].key) + 2)
    ELSE <<text[i + 1]>> \o FilledIn(text, variables, i + 1)

\* the step applies the template of the dialog
AppliesTemplate ==
    /\ event' = "handleApplyTemplate"
    /\ variableDialog.open
    /\ variableDialog.template # <<>>

\* C30: applying a template with a value for each of its declared variables
\* puts into the form the template text with every [KEY] occurrence of the
\* original text replaced by the value given for KEY and nothing else; a
\* value is never substituted again, so the order of the keys does not matter.
C30_FilledOnce ==
    [][AppliesTemplate =>
          promptData'.prompt =
              FilledIn(variableDialog.template[1].prompt, variableDialog.variables, 0)]_vars

====
